---- MODULE Spec2Model ----
(***************************************************************************)
(* Session-state engine of the QUASAR terminal dashboard (cli/src).        *)
(* The model follows Run.tsx (state, key handling, resize, bridge),        *)
(* handlers/messageHandlers.ts (the dispatcher and its handlers),          *)
(* handlers/checkpointHandler.ts (checkpoint reconstruction) and           *)
(* utils/stateHelpers.ts (fresh-start and interrupt resets).               *)
(***************************************************************************)
EXTENDS Integers, Sequences, FiniteSets, TLC

(***************************************************************************)
(* Bounds of the exploration.                                              *)
(***************************************************************************)
\* inbound protocol messages dispatched between two spawns of the worker
MaxMsgs == 2
\* user gestures (key presses, submits, terminal resizes) in one behaviour
MaxKeys == 2
\* seconds the clock advances in one behaviour
MaxNow == 3
\* largest task number the worker reports
MaxTask == 2

(***************************************************************************)
(* Program constants.                                                      *)
(***************************************************************************)
\* the 3000 ms window of the interrupt gesture, in seconds
EscWindow == 3
\* the 3000 ms window of the exit gesture, in seconds
ExitWindow == 3

\* a timer that is not armed
NoTimer == -1
\* bridgeRef.current === null
NoProc == -1
\* taskNum === undefined
NoTask == 0

(***************************************************************************)
(* Values.                                                                 *)
(***************************************************************************)
Undefined == "undefined"
\* a status that is not a string (a malformed agent_event payload)
NonString == "<non-string>"

\* TaskProgress | null
NullProgress == [current |-> NoTask, total |-> 0]

\* FileContent | null; a file content is << name, content >>
NullFile == << >>

\* str.includes('executed') after toLowerCase, on the status texts of the model
ContainsExecuted(s) == s \in {"Executed code"}

\* s && s.trim()
NonBlank(s) == s \notin {"", Undefined}

(***************************************************************************)
(* Item ids.  An id string is kept as its parts: k (the literal frame),    *)
(* a (agent), n (task number), j (history index), h ("-history" suffix),   *)
(* t (Date.now()) and c (item counter).                                    *)
(***************************************************************************)
MkId(k, a, n, j, h, t, c) ==
    [k |-> k, a |-> a, n |-> n, j |-> j, h |-> h, t |-> t, c |-> c]

\* a fixed id such as 'banner' or 'final-summary'
FixedId(k) == MkId(k, "", 0, 0, FALSE, 0, 0)
\* `${agentName}-header`
AgentHeaderId(a) == MkId("header", a, 0, 0, FALSE, 0, 0)
\* `${agentName}-header-task${taskNum}` and its "-history" form
TaskHeaderId(a, n, h) == MkId("header-task", a, n, 0, h, 0, 0)
\* `evaluator-header-${Date.now()}`
TimedHeaderId(t) == MkId("header-time", "evaluator", 0, 0, FALSE, t, 0)
\* `${agentName}-task-panel-${taskNum}` and its "-history" form
TaskPanelId(a, n, h) == MkId("task-panel", a, n, 0, h, 0, 0)
\* `${agent}-item-task${taskNum}-${j}-history`
HistoryItemId(a, n, j) == MkId("item-task", a, n, j, TRUE, 0, 0)
\* `evaluation-summary-task${taskNum}-history`
HistorySummaryId(n) == MkId("evaluation-summary-task", "", n, 0, TRUE, 0, 0)
\* `evaluator-status-task${taskNum}-history`
HistoryStatusId(n) == MkId("evaluator-status-task", "evaluator", n, 0, TRUE, 0, 0)
\* `${prefix}-${Date.now()}-${counter.current}`
generateUniqueId(prefix, a, t, c) == MkId(prefix, a, 0, 0, FALSE, t, c)
\* `interrupt-${Date.now()}`, `code-snippet-${Date.now()}`
TimedId(k, t) == MkId(k, "", 0, 0, FALSE, t, 0)

\* the decimal numeral of n is a prefix of the decimal numeral of m
RECURSIVE DecimalPrefix(_, _)
DecimalPrefix(n, m) ==
    IF n = m THEN TRUE
    ELSE IF m < 10 THEN FALSE
    ELSE DecimalPrefix(n, m \div 10)

\* id.includes(`task${n}`): the ids that hold "task" hold it right before
\* their task number
IdIncludesTask(id, n) ==
    /\ id.k \in {"header-task", "item-task", "evaluation-summary-task",
                 "evaluator-status-task"}
    /\ DecimalPrefix(n, id.n)

(***************************************************************************)
(* Committed items.                                                        *)
(***************************************************************************)
\* content: a text, for a task panel the task number, and for a plan box
\* rebuilt from history the plan entries that were joined
Content(text, n) == [text |-> text, n |-> n, plan |-> << >>]
PlanContent(text, plan) == [text |-> text, n |-> 0, plan |-> plan]

Item(id, type, content, agentName, isError) ==
    [id |-> id, type |-> type, content |-> content,
     agentName |-> agentName, isError |-> isError]

SomeItem(items, P(_)) == \E i \in 1..Len(items) : P(items[i])

\* cleanTaskDescription(rawTask): the first line without its "Task N:"
\* prefix, on the plan entries of the model
cleanTaskDescription(rawTask) ==
    CASE rawTask = "Task 1: relax the cell" -> "relax the cell"
      [] rawTask = "Task 2: compute the bands" -> "compute the bands"
      [] rawTask = "Task 3: post-process" -> "post-process"
      [] OTHER -> rawTask

\* the task panel that follows a new operator header, when the plan has
\* an entry for the task
TaskPanel(plan, taskNum, h) ==
    IF Len(plan) >= taskNum /\ plan[taskNum] # ""
    THEN << Item(TaskPanelId("operator", taskNum, h), "active-task-panel",
                 Content(cleanTaskDescription(plan[taskNum]), taskNum),
                 "operator", Undefined) >>
    ELSE << >>

\* ensureHeader, operator with a task number
ensureHeaderOperator(items, taskNum, plan) ==
    LET headerId == TaskHeaderId("operator", taskNum, FALSE) IN
    IF SomeItem(items, LAMBDA it : it.id = headerId) THEN items
    ELSE IF Len(items) > 0 /\ items[Len(items)].agentName = "operator"
            /\ taskNum = 1 THEN items
    ELSE IF taskNum = 1
            /\ SomeItem(items, LAMBDA it : it.id = AgentHeaderId("operator"))
         THEN items
    ELSE Append(items, Item(headerId, "agent-header", Content("operator", 0),
                            "operator", Undefined))
         \o TaskPanel(plan, taskNum, FALSE)

\* ensureHeader, evaluator
ensureHeaderEvaluator(items, taskNum, t) ==
    LET evaluatorHeaderForThisTask ==
            IF taskNum # NoTask
            THEN SomeItem(items, LAMBDA it : it.type = "evaluator-header"
                                             /\ IdIncludesTask(it.id, taskNum))
            ELSE SomeItem(items, LAMBDA it : it.type = "evaluator-header")
        headerId == IF taskNum # NoTask
                    THEN TaskHeaderId("evaluator", taskNum, FALSE)
                    ELSE TimedHeaderId(t)
    IN  IF ~evaluatorHeaderForThisTask
        THEN Append(items, Item(headerId, "evaluator-header",
                                Content("evaluator", 0), "evaluator", Undefined))
        ELSE items

\* ensureHeader, any other agent (and the operator without task number)
ensureHeaderOther(items, agentName) ==
    IF SomeItem(items, LAMBDA it : it.id = AgentHeaderId(agentName)) THEN items
    ELSE Append(items, Item(AgentHeaderId(agentName), "agent-header",
                            Content(agentName, 0), agentName, Undefined))

\* ensureHeader(items, agentName, taskNum); plan is parsedPlanRef.current and
\* t is Date.now()
ensureHeader(items, agentName, taskNum, plan, t) ==
    IF agentName = "operator" /\ taskNum # NoTask
    THEN ensureHeaderOperator(items, taskNum, plan)
    ELSE IF agentName = "evaluator"
    THEN ensureHeaderEvaluator(items, taskNum, t)
    ELSE ensureHeaderOther(items, agentName)

(***************************************************************************)
(* Checkpoint reconstruction (checkpointHandler.ts).  A history holds      *)
(* plan, completed (completed_steps.length), the recorded items of each    *)
(* role by task index, step_results by task index ("" when absent),        *)
(* current_task and total_tasks (0 when absent) and full_plan_text.        *)
(***************************************************************************)
\* history.<role>_items_by_task?.[String(i)] || []
ItemsOfTask(byTask, i) == IF i \in DOMAIN byTask THEN byTask[i] ELSE << >>

\* history.step_results?.[String(i)]
ResultOfTask(history, i) ==
    IF i \in DOMAIN history.step_results THEN history.step_results[i] ELSE ""

\* the recorded items of one role for one task, as committed items
RECURSIVE HistoryItems(_, _, _, _, _)
HistoryItems(recorded, agentName, taskNum, keepError, j) ==
    IF j > Len(recorded) THEN << >>
    ELSE << Item(HistoryItemId(agentName, taskNum, j - 1), recorded[j].type,
                 Content(recorded[j].content, 0), agentName,
                 IF keepError THEN recorded[j].isError ELSE Undefined) >>
         \o HistoryItems(recorded, agentName, taskNum, keepError, j + 1)

\* the plan items of buildHistoryItems
HistoryPlanItems(history) ==
    LET fromPlan == Len(history.plan) > 0
        hasContent == fromPlan \/ history.full_plan_text # ""
    IN  IF hasContent
        THEN << Item(AgentHeaderId("strategist"), "agent-header",
                     Content("strategist", 0), "strategist", Undefined),
                Item(FixedId("checkpoint-history-plan"), "plan",
                     IF fromPlan THEN PlanContent("", history.plan)
                     ELSE PlanContent(history.full_plan_text, << >>),
                     "strategist", Undefined),
                Item(FixedId("strategist-complete"), "agent-status",
                     Content("Created Execution Plan", 0), "strategist",
                     Undefined) >>
        ELSE << >>

\* a variant of the block of a completed task that puts the recorded
\* summary before the reviewer's items: C13 must tell it from the block of
\* the code
CompletedTaskItemsMutant(history, i) ==
    LET taskNum == i + 1
        summary == ResultOfTask(history, i)
    IN  << Item(TaskHeaderId("operator", taskNum, TRUE), "agent-header",
                Content("operator", 0), "operator", Undefined) >>
        \o TaskPanel(history.plan, taskNum, TRUE)
        \o HistoryItems(ItemsOfTask(history.operator_items_by_task, i),
                        "operator", taskNum, TRUE, 1)
        \o << Item(TaskHeaderId("evaluator", taskNum, TRUE), "evaluator-header",
                   Content("evaluator", 0), "evaluator", Undefined) >>
        \o (IF summary # ""
            THEN << Item(HistorySummaryId(taskNum), "evaluation-summary",
                         Content(summary, 0), "evaluator", Undefined) >>
            ELSE << >>)
        \o HistoryItems(ItemsOfTask(history.evaluator_items_by_task, i),
                        "evaluator", taskNum, FALSE, 1)
        \o << Item(HistoryStatusId(taskNum), "evaluator-status",
                   Content("Evaluation Passed", 0), "evaluator", Undefined) >>

\* the block of the completed task with index i
CompletedTaskItems(history, i) ==
    LET taskNum == i + 1
        summary == ResultOfTask(history, i)
    IN  << Item(TaskHeaderId("operator", taskNum, TRUE), "agent-header",
                Content("operator", 0), "operator", Undefined) >>
        \o TaskPanel(history.plan, taskNum, TRUE)
        \o HistoryItems(ItemsOfTask(history.operator_items_by_task, i),
                        "operator", taskNum, TRUE, 1)
        \o << Item(TaskHeaderId("evaluator", taskNum, TRUE), "evaluator-header",
                   Content("evaluator", 0), "evaluator", Undefined) >>
        \o HistoryItems(ItemsOfTask(history.evaluator_items_by_task, i),
                        "evaluator", taskNum, FALSE, 1)
        \o (IF summary # ""
            THEN << Item(HistorySummaryId(taskNum), "evaluation-summary",
                         Content(summary, 0), "evaluator", Undefined) >>
            ELSE << >>)
        \o << Item(HistoryStatusId(taskNum), "evaluator-status",
                   Content("Evaluation Passed", 0), "evaluator", Undefined) >>

RECURSIVE CompletedItems(_, _)
CompletedItems(history, i) ==
    IF i >= history.completed THEN << >>
    ELSE CompletedTaskItems(history, i) \o CompletedItems(history, i + 1)

\* a variant of the block of the in-progress task that emits the reviewer
\* header whether or not reviewer items were recorded: C16 must tell it from
\* the block of the code
RemainingItemsMutant(history) ==
    LET completedCount == history.completed
        currentTaskNum == completedCount + 1
        remainingOpItems ==
            ItemsOfTask(history.operator_items_by_task, completedCount)
        remainingEvalItems ==
            ItemsOfTask(history.evaluator_items_by_task, completedCount)
    IN  IF Len(remainingOpItems) > 0
        THEN << Item(TaskHeaderId("operator", currentTaskNum, TRUE),
                     "agent-header", Content("operator", 0), "operator",
                     Undefined) >>
             \o TaskPanel(history.plan, currentTaskNum, TRUE)
             \o HistoryItems(remainingOpItems, "operator", currentTaskNum,
                             TRUE, 1)
             \o << Item(TaskHeaderId("evaluator", currentTaskNum, TRUE),
                        "evaluator-header", Content("evaluator", 0),
                        "evaluator", Undefined) >>
             \o HistoryItems(remainingEvalItems, "evaluator",
                             currentTaskNum, TRUE, 1)
        ELSE << >>

\* the block of the in-progress task
RemainingItems(history) ==
    LET completedCount == history.completed
        currentTaskNum == completedCount + 1
        remainingOpItems ==
            ItemsOfTask(history.operator_items_by_task, completedCount)
        remainingEvalItems ==
            ItemsOfTask(history.evaluator_items_by_task, completedCount)
    IN  IF Len(remainingOpItems) > 0
        THEN << Item(TaskHeaderId("operator", currentTaskNum, TRUE),
                     "agent-header", Content("operator", 0), "operator",
                     Undefined) >>
             \o TaskPanel(history.plan, currentTaskNum, TRUE)
             \o HistoryItems(remainingOpItems, "operator", currentTaskNum,
                             TRUE, 1)
             \o (IF Len(remainingEvalItems) > 0
                 THEN << Item(TaskHeaderId("evaluator", currentTaskNum, TRUE),
                              "evaluator-header", Content("evaluator", 0),
                              "evaluator", Undefined) >>
                      \o HistoryItems(remainingEvalItems, "evaluator",
                                      currentTaskNum, TRUE, 1)
                 ELSE << >>)
        ELSE << >>

buildHistoryItems(history) ==
    HistoryPlanItems(history) \o CompletedItems(history, 0)
    \o RemainingItems(history)

\* a variant of the test that knows the plan box of a live run only: C14
\* must tell it from the test of the code
hasStrategistContentMutant(items) ==
    SomeItem(items, LAMBDA it : it.id = FixedId("execution-plan-complete"))

\* hasStrategistContent(items)
hasStrategistContent(items) ==
    SomeItem(items, LAMBDA it :
        \/ it.id = AgentHeaderId("strategist")
        \/ it.id = FixedId("execution-plan-complete")
        \/ it.id = FixedId("checkpoint-history-plan")
        \/ (it.type = "agent-header" /\ it.agentName = "strategist")
        \/ (it.type = "plan" /\ it.agentName = "strategist"))

(***************************************************************************)
(* The state of the Run component (Run.tsx:49-98), of the worker           *)
(* processes it owns and of its pending timers.                            *)
(***************************************************************************)
VARIABLES
    \* React state and refs of Run
    messages, status, isLoading, modelName, isResizing, ragStatus,
    isSystemReady, showMainUI, systemStatus, agents, planContent,
    isPlanComplete, activeFileContentRef, lastCodeResultIsErrorRef,
    taskProgress, taskProgressRef, committedItems, bannerCommitted,
    checkpointMode, previousInput, escPressedOnce, showInterruptWarning,
    isInterruptedRef, escTimeoutRef, exitPressedOnce, showExitWarning,
    exitTimeoutRef, resizeCounter, staticKey, bridgeRef, resizeTimeoutRef,
    bridgeRestartCounter, itemIdCounterRef, parsedPlan, parsedPlanRef,
    \* process.env.IF_RESTART is one of 'true', '1', 'yes', 'on'
    restartFromEnv,
    \* worker processes: number spawned, those killed, commands written
    spawned, killed, sent,
    \* the bridge effect has to run for the current bridgeRestartCounter
    bridgeEffectPending,
    \* pending setTimeout callbacks other than the two gesture windows
    readyTimers, ragTimer, resumeTimers, resizeRestore,
    \* exit() was called
    exited,
    \* Date.now(), in seconds
    now,
    \* bookkeeping of the exploration: messages dispatched, gestures made,
    \* what the last step was, and the type of the message it dispatched
    nMsgs, nKeys, lastStep, lastMsg,
    \* the worker's standard output, where it is followed byte by byte: the
    \* lines the worker has emitted, what of them is still in the pipe, and
    \* the lines handleBridgeMessage was called with, in the order of the calls
    emitted, pipe, dispatched,
    \* a call of the layout functions (utils/formatting.ts, utils/textProcessing),
    \* where one is followed: its arguments and what it returned
    fmtCall, fmtResult

vars ==
    << messages, status, isLoading, modelName, isResizing, ragStatus,
       isSystemReady, showMainUI, systemStatus, agents, planContent,
       isPlanComplete, activeFileContentRef, lastCodeResultIsErrorRef,
       taskProgress, taskProgressRef, committedItems, bannerCommitted,
       checkpointMode, previousInput, escPressedOnce, showInterruptWarning,
       isInterruptedRef, escTimeoutRef, exitPressedOnce, showExitWarning,
       exitTimeoutRef, resizeCounter, staticKey, bridgeRef, resizeTimeoutRef,
       bridgeRestartCounter, itemIdCounterRef, parsedPlan, parsedPlanRef,
       restartFromEnv, spawned, killed, sent, bridgeEffectPending,
       readyTimers, ragTimer, resumeTimers, resizeRestore, exited, now,
       nMsgs, nKeys, lastStep, lastMsg, emitted, pipe,
       dispatched, fmtCall, fmtResult >>

streamVars == << emitted, pipe, dispatched >>

formatVars == << fmtCall, fmtResult >>

\* the current state as one record, so that a handler is a function on it
State ==
    [ messages |-> messages, status |-> status, isLoading |-> isLoading,
      modelName |-> modelName, isResizing |-> isResizing,
      ragStatus |-> ragStatus, isSystemReady |-> isSystemReady,
      showMainUI |-> showMainUI, systemStatus |-> systemStatus,
      agents |-> agents, planContent |-> planContent,
      isPlanComplete |-> isPlanComplete,
      activeFileContentRef |-> activeFileContentRef,
      lastCodeResultIsErrorRef |-> lastCodeResultIsErrorRef,
      taskProgress |-> taskProgress, taskProgressRef |-> taskProgressRef,
      committedItems |-> committedItems, bannerCommitted |-> bannerCommitted,
      checkpointMode |-> checkpointMode, previousInput |-> previousInput,
      escPressedOnce |-> escPressedOnce,
      showInterruptWarning |-> showInterruptWarning,
      isInterruptedRef |-> isInterruptedRef, escTimeoutRef |-> escTimeoutRef,
      exitPressedOnce |-> exitPressedOnce, showExitWarning |-> showExitWarning,
      exitTimeoutRef |-> exitTimeoutRef, resizeCounter |-> resizeCounter,
      staticKey |-> staticKey, bridgeRef |-> bridgeRef,
      resizeTimeoutRef |-> resizeTimeoutRef,
      bridgeRestartCounter |-> bridgeRestartCounter,
      itemIdCounterRef |-> itemIdCounterRef, parsedPlan |-> parsedPlan,
      parsedPlanRef |-> parsedPlanRef, restartFromEnv |-> restartFromEnv,
      spawned |-> spawned, killed |-> killed, sent |-> sent,
      bridgeEffectPending |-> bridgeEffectPending,
      readyTimers |-> readyTimers, ragTimer |-> ragTimer,
      resumeTimers |-> resumeTimers, resizeRestore |-> resizeRestore,
      exited |-> exited, now |-> now, lastStep |-> lastStep ]

\* the next state is the record r
Becomes(r) ==
    /\ messages' = r.messages
    /\ status' = r.status
    /\ isLoading' = r.isLoading
    /\ modelName' = r.modelName
    /\ isResizing' = r.isResizing
    /\ ragStatus' = r.ragStatus
    /\ isSystemReady' = r.isSystemReady
    /\ showMainUI' = r.showMainUI
    /\ systemStatus' = r.systemStatus
    /\ agents' = r.agents
    /\ planContent' = r.planContent
    /\ isPlanComplete' = r.isPlanComplete
    /\ activeFileContentRef' = r.activeFileContentRef
    /\ lastCodeResultIsErrorRef' = r.lastCodeResultIsErrorRef
    /\ taskProgress' = r.taskProgress
    /\ taskProgressRef' = r.taskProgressRef
    /\ committedItems' = r.committedItems
    /\ bannerCommitted' = r.bannerCommitted
    /\ checkpointMode' = r.checkpointMode
    /\ previousInput' = r.previousInput
    /\ escPressedOnce' = r.escPressedOnce
    /\ showInterruptWarning' = r.showInterruptWarning
    /\ isInterruptedRef' = r.isInterruptedRef
    /\ escTimeoutRef' = r.escTimeoutRef
    /\ exitPressedOnce' = r.exitPressedOnce
    /\ showExitWarning' = r.showExitWarning
    /\ exitTimeoutRef' = r.exitTimeoutRef
    /\ resizeCounter' = r.resizeCounter
    /\ staticKey' = r.staticKey
    /\ bridgeRef' = r.bridgeRef
    /\ resizeTimeoutRef' = r.resizeTimeoutRef
    /\ bridgeRestartCounter' = r.bridgeRestartCounter
    /\ itemIdCounterRef' = r.itemIdCounterRef
    /\ parsedPlan' = r.parsedPlan
    /\ parsedPlanRef' = r.parsedPlanRef
    /\ restartFromEnv' = r.restartFromEnv
    /\ spawned' = r.spawned
    /\ killed' = r.killed
    /\ sent' = r.sent
    /\ bridgeEffectPending' = r.bridgeEffectPending
    /\ readyTimers' = r.readyTimers
    /\ ragTimer' = r.ragTimer
    /\ resumeTimers' = r.resumeTimers
    /\ resizeRestore' = r.resizeRestore
    /\ exited' = r.exited
    /\ now' = r.now
    /\ lastStep' = r.lastStep

\* the state the handlers and the user act on: everything but the
\* bookkeeping of the exploration
sessionVars ==
    << messages, status, isLoading, modelName, isResizing, ragStatus,
       isSystemReady, showMainUI, systemStatus, agents, planContent,
       isPlanComplete, activeFileContentRef, lastCodeResultIsErrorRef,
       taskProgress, taskProgressRef, committedItems, bannerCommitted,
       checkpointMode, previousInput, escPressedOnce, showInterruptWarning,
       isInterruptedRef, escTimeoutRef, exitPressedOnce, showExitWarning,
       exitTimeoutRef, resizeCounter, staticKey, bridgeRef, resizeTimeoutRef,
       bridgeRestartCounter, itemIdCounterRef, parsedPlan, parsedPlanRef,
       restartFromEnv, spawned, killed, sent, bridgeEffectPending,
       readyTimers, ragTimer, resumeTimers, resizeRestore, exited, now >>

\* bridgeRef.current.stdin.write(JSON.stringify(cmd) + "\n"), guarded by
\* "if (bridgeRef.current)"
Command(command, content, restart) ==
    [command |-> command, content |-> content, restart |-> restart]

Write(s, cmd) ==
    IF s.bridgeRef # NoProc
    THEN [s EXCEPT !.sent = Append(@, [cmd |-> cmd, to |-> s.bridgeRef])]
    ELSE s

(***************************************************************************)
(* Message handlers (messageHandlers.ts).  Each takes the state s and the  *)
(* payload and gives the state after the handler.                          *)
(***************************************************************************)
\* an exception left the handler: the catch of the data listener
\* (Run.tsx:312-314) swallows it, and what was assigned before stays
Thrown(s) == [s EXCEPT !.lastStep = "threw"]

Bool(b) == IF b THEN "true" ELSE "false"

\* a variant of handleReadyMessage that never asks for the checkpoint: C37
\* must tell it from the handler of the code
handleReadyMessageMutant(s) == s

handleReadyMessage(s) ==
    IF s.ragStatus = "done"
    THEN [s EXCEPT !.readyTimers = @ + 1]
    ELSE s

handleInitMessage(s, payload) ==
    IF payload.model # "" THEN [s EXCEPT !.modelName = payload.model] ELSE s

handleStatusMessage(s, payload) ==
    IF ~payload.present THEN Thrown(s)
    ELSE [s EXCEPT !.status = payload.text, !.isLoading = payload.loading]

handleLogMessage(s, payload) ==
    LET prev == s.messages
        n == Len(prev)
    IN  IF n > 0 /\ prev[n].role = "assistant"
        THEN [s EXCEPT !.messages =
                 [prev EXCEPT ![n].content = Append(@, payload.text)]]
        ELSE [s EXCEPT !.messages =
                 Append(prev, [role |-> "assistant",
                               content |-> << payload.text >>])]

handleDoneMessage(s) ==
    Write([s EXCEPT !.isLoading = FALSE, !.status = "null"],
          Command("check_checkpoint", Undefined, Undefined))

handleErrorMessage(s, payload) ==
    LET errorMsg == IF payload.traceback # ""
                    THEN << "Error: ", payload.message, payload.traceback >>
                    ELSE << "Error: ", payload.message >>
    IN  [s EXCEPT !.messages = Append(@, [role |-> "system",
                                          content |-> errorMsg]),
                  !.isLoading = FALSE]

\* handleRagStatusMessage, and the effect on ragStatus?.status
\* (Run.tsx:178-188): its cleanup clears the timer, and a new status 'done'
\* arms it
handleRagStatusMessage(s, payload) ==
    [s EXCEPT !.ragStatus = payload.status,
              !.ragTimer = IF payload.status = s.ragStatus THEN @
                           ELSE payload.status = "done"]

handleSystemReadyMessage(s) == [s EXCEPT !.isSystemReady = TRUE]

handleSystemStatusMessage(s, payload) ==
    IF payload.status = "running"
    THEN [s EXCEPT !.systemStatus = "running", !.agents = << >>,
                   !.planContent = "", !.isPlanComplete = FALSE,
                   !.taskProgress = NullProgress]
    ELSE IF payload.status = "completed"
    THEN [s EXCEPT !.systemStatus = "completed",
                   !.agents = [i \in DOMAIN @ |->
                                  [@[i] EXCEPT !.status = "complete"]]]
    ELSE s

\* a variant of the registry update that adds a record for every event: C23
\* must tell it from the update of the code
UpdateAgentsMutant(prev, agent, event, agentStatusText) ==
    Append(prev, [name |-> agent,
                  status |-> IF event = "complete" THEN "complete"
                             ELSE "active",
                  statusText |-> agentStatusText,
                  isStreaming |-> FALSE])

\* the setAgents update at the end of handleAgentEventMessage
UpdateAgents(prev, agent, event, agentStatusText) ==
    LET update(a) ==
            [a EXCEPT
               !.status = IF event = "complete" THEN "complete"
                          ELSE IF event = "log" THEN a.status ELSE "active",
               !.statusText = IF event \in {"update", "start", "complete"}
                              THEN agentStatusText ELSE a.statusText,
               !.isStreaming = FALSE]
    IN  IF \E i \in DOMAIN prev : prev[i].name = agent
        THEN [i \in DOMAIN prev |->
                 IF prev[i].name = agent THEN update(prev[i]) ELSE prev[i]]
        ELSE Append(prev, [name |-> agent,
                           status |-> IF event = "complete" THEN "complete"
                                      ELSE "active",
                           statusText |-> agentStatusText,
                           isStreaming |-> FALSE])

\* a variant of the step_complete branch that puts the plan box after the
\* milestone's item: C18 must tell it from the branch of the code
AgentStepCompleteMutant(s, payload, currentTaskNum) ==
    LET agent == payload.agent
        agentStatusText == payload.status
        isExecuteCodeTool == ContainsExecuted(agentStatusText)
        toolIsError == IF payload.is_error THEN TRUE
                       ELSE IF isExecuteCodeTool
                            THEN s.lastCodeResultIsErrorRef ELSE FALSE
        items == ensureHeader(s.committedItems, agent, currentTaskNum,
                              s.parsedPlanRef, s.now)
        counter == s.itemIdCounterRef + 1
        newToolItem == Item(generateUniqueId("tool", agent, s.now, counter),
                            "tool", Content(agentStatusText, 0), agent,
                            Bool(toolIsError))
        hasPlan == SomeItem(items, LAMBDA it :
                       \/ it.id = FixedId("execution-plan-complete")
                       \/ it.id = FixedId("checkpoint-history-plan")
                       \/ (it.type = "plan" /\ it.agentName = "strategist"))
        planItem == Item(FixedId("execution-plan-complete"), "plan",
                         PlanContent(payload.output, << >>), "strategist",
                         Undefined)
        withPlan == /\ agent = "strategist"
                    /\ agentStatusText \in {"Reviewed Plan", "Created Replan"}
                    /\ ~hasPlan
                    /\ payload.output # ""
    IN  [s EXCEPT
           !.activeFileContentRef = NullFile,
           !.lastCodeResultIsErrorRef = IF isExecuteCodeTool THEN FALSE ELSE @,
           !.itemIdCounterRef = counter,
           !.committedItems = IF withPlan
                              THEN items \o << newToolItem, planItem >>
                              ELSE Append(items, newToolItem)]

\* the step_complete branch of handleAgentEventMessage, before setAgents
AgentStepComplete(s, payload, currentTaskNum) ==
    LET agent == payload.agent
        agentStatusText == payload.status
        isExecuteCodeTool == ContainsExecuted(agentStatusText)
        toolIsError == IF payload.is_error THEN TRUE
                       ELSE IF isExecuteCodeTool
                            THEN s.lastCodeResultIsErrorRef ELSE FALSE
        items == ensureHeader(s.committedItems, agent, currentTaskNum,
                              s.parsedPlanRef, s.now)
        counter == s.itemIdCounterRef + 1
        newToolItem == Item(generateUniqueId("tool", agent, s.now, counter),
                            "tool", Content(agentStatusText, 0), agent,
                            Bool(toolIsError))
        hasPlan == SomeItem(items, LAMBDA it :
                       \/ it.id = FixedId("execution-plan-complete")
                       \/ it.id = FixedId("checkpoint-history-plan")
                       \/ (it.type = "plan" /\ it.agentName = "strategist"))
        planItem == Item(FixedId("execution-plan-complete"), "plan",
                         PlanContent(payload.output, << >>), "strategist",
                         Undefined)
        withPlan == /\ agent = "strategist"
                    /\ agentStatusText \in {"Reviewed Plan", "Created Replan"}
                    /\ ~hasPlan
                    /\ payload.output # ""
    IN  [s EXCEPT
           !.activeFileContentRef = NullFile,
           !.lastCodeResultIsErrorRef = IF isExecuteCodeTool THEN FALSE ELSE @,
           !.itemIdCounterRef = counter,
           !.committedItems = IF withPlan
                              THEN items \o << planItem, newToolItem >>
                              ELSE Append(items, newToolItem)]

\* the log branch
AgentLog(s, payload, currentTaskNum) ==
    LET agent == payload.agent
        agentStatusText == payload.status
        items == ensureHeader(s.committedItems, agent, currentTaskNum,
                              s.parsedPlanRef, s.now)
        isEvaluatorSummary ==
            /\ agent = "evaluator"
            /\ NonBlank(agentStatusText)
            /\ agentStatusText \notin {"Evaluation Passed", "Evaluation Failed",
                                       "Evaluating output"}
        counter == s.itemIdCounterRef + 1
    IN  [s EXCEPT
           !.itemIdCounterRef = counter,
           !.committedItems =
               Append(items, Item(generateUniqueId("log", agent, s.now, counter),
                                  IF isEvaluatorSummary
                                  THEN "evaluation-summary" ELSE "log",
                                  Content(agentStatusText, 0), agent,
                                  Undefined))]

\* the start branch
AgentStart(s, payload, currentTaskNum) ==
    [s EXCEPT !.committedItems =
        ensureHeader(@, payload.agent, currentTaskNum, s.parsedPlanRef, s.now)]

\* the complete branch
AgentComplete(s, payload, currentTaskNum) ==
    LET agent == payload.agent
        items == ensureHeader(s.committedItems, agent, currentTaskNum,
                              s.parsedPlanRef, s.now)
        counter == s.itemIdCounterRef + 1
    IN  IF NonBlank(payload.status)
        THEN [s EXCEPT
                !.itemIdCounterRef = counter,
                !.committedItems =
                    Append(items,
                           Item(generateUniqueId("complete", agent, s.now,
                                                 counter),
                                IF agent = "evaluator" THEN "evaluator-status"
                                ELSE "agent-status",
                                Content(payload.status, 0), agent, Undefined))]
        ELSE s

handleAgentEventMessage(s, payload) ==
    LET currentTaskNum == s.taskProgressRef.current
        event == payload.event
        s1 == IF event = "step_complete"
              THEN AgentStepComplete(s, payload, currentTaskNum)
              ELSE IF event = "log" THEN AgentLog(s, payload, currentTaskNum)
              ELSE IF event = "start"
              THEN AgentStart(s, payload, currentTaskNum)
              ELSE IF event = "complete"
              THEN AgentComplete(s, payload, currentTaskNum)
              ELSE s
    IN  IF event = "step_complete" /\ payload.status = NonString
        \* line 139 has run; agentStatusText?.toLowerCase() of line 142 throws
        THEN Thrown([s EXCEPT !.activeFileContentRef = NullFile])
        ELSE [s1 EXCEPT !.agents =
                 UpdateAgents(@, payload.agent, event, payload.status)]

handlePlanStreamMessage(s, payload) ==
    [s EXCEPT !.parsedPlan = IF Len(payload.parsed_plan) > 0
                             THEN payload.parsed_plan ELSE @,
              !.planContent = payload.content,
              !.isPlanComplete = payload.is_complete]

handleTaskProgressMessage(s, payload) ==
    IF payload.present
    THEN LET progress == [current |-> payload.current,
                          total |-> payload.total]
         IN  [s EXCEPT !.taskProgress = progress, !.taskProgressRef = progress]
    ELSE s

handleFileContentMessage(s, payload) ==
    IF payload.name # "" /\ payload.content # ""
    THEN LET content == << payload.name, payload.content >>
             currentTaskNum == s.taskProgressRef.current
             isDuplicate == s.activeFileContentRef = content
             items == ensureHeader(s.committedItems, "operator",
                                   currentTaskNum, s.parsedPlanRef, s.now)
         IN  [s EXCEPT
                !.activeFileContentRef = content,
                !.committedItems =
                    IF isDuplicate THEN @
                    ELSE Append(items,
                                Item(TimedId("code-snippet", s.now),
                                     "code-snippet",
                                     Content(payload.content, 0), "operator",
                                     Undefined))]
    ELSE s

\* content.substring(0, 100); every text of the model is shorter
First100(text) == text

\* the hasFinalSummary test of handleCompletedRunInfoMessage and
\* handleFinalSummaryMessage
hasFinalSummary(prev, summaryContent) ==
    SomeItem(prev, LAMBDA it :
        /\ it.id \in {FixedId("final-summary"),
                      FixedId("completed-run-summary")}
        /\ it.type = "final-summary"
        /\ \/ it.content.text = summaryContent
           \/ First100(it.content.text) = First100(summaryContent))

handleCompletedRunInfoMessage(s, payload) ==
    LET s1 == [s EXCEPT !.showMainUI = TRUE]
    IN  IF payload.exists
        THEN [s1 EXCEPT
                !.checkpointMode = "completed-run-prompt",
                !.previousInput = payload.previous_input,
                !.committedItems =
                    IF payload.summary = "" \/ hasFinalSummary(@, payload.summary)
                    THEN @
                    ELSE Append(@, Item(FixedId("completed-run-summary"),
                                        "final-summary",
                                        Content(payload.summary, 0), "system",
                                        Undefined))]
        ELSE s1

handleArchiveCompleteMessage(s, payload) ==
    IF payload.success THEN [s EXCEPT !.checkpointMode = "normal"] ELSE s

handleFreshStartCompleteMessage(s) == s

handleClearCheckpointCompleteMessage(s) ==
    [s EXCEPT !.checkpointMode = "normal"]

handleFinalSummaryMessage(s, payload) ==
    IF payload.content # "" /\ ~hasFinalSummary(s.committedItems, payload.content)
    THEN [s EXCEPT !.committedItems =
             Append(@, Item(FixedId("final-summary"), "final-summary",
                            Content(payload.content, 0), "system", Undefined))]
    ELSE s

\* a variant of handleCodeResultMessage that shows the result and leaves the
\* last-code-result flag as it was: C31 must tell it from the code
handleCodeResultMessageMutant(s, payload) ==
    IF payload.output # ""
    THEN LET isError == payload.success = "false"
             currentTaskNum == s.taskProgressRef.current
             items == ensureHeader(s.committedItems, "operator",
                                   currentTaskNum, s.parsedPlanRef, s.now)
             counter == s.itemIdCounterRef + 1
         IN  [s EXCEPT
                !.itemIdCounterRef = counter,
                !.committedItems =
                    Append(items,
                           Item(generateUniqueId("code-result", "", s.now,
                                                 counter),
                                "code-result", Content(payload.output, 0),
                                "operator", Bool(isError)))]
    ELSE s

handleCodeResultMessage(s, payload) ==
    IF payload.output # ""
    THEN LET isError == payload.success = "false"
             currentTaskNum == s.taskProgressRef.current
             items == ensureHeader(s.committedItems, "operator",
                                   currentTaskNum, s.parsedPlanRef, s.now)
             counter == s.itemIdCounterRef + 1
         IN  [s EXCEPT
                !.lastCodeResultIsErrorRef = isError,
                !.itemIdCounterRef = counter,
                !.committedItems =
                    Append(items,
                           Item(generateUniqueId("code-result", "", s.now,
                                                 counter),
                                "code-result", Content(payload.output, 0),
                                "operator", Bool(isError)))]
    ELSE s

\* a variant of the mode resolution that takes a missing checkpoint for a
\* normal start and sends no resume command: C17 must tell it from the
\* resolution of the code
handleCheckpointInfoMutant(s, payload) ==
    LET history == payload.history
        withPlan == history.present /\ Len(history.plan) > 0
        withProgress == /\ history.present
                        /\ history.current_task # 0
                        /\ history.total_tasks # 0
        progress == [current |-> history.current_task,
                     total |-> history.total_tasks]
        s1 == [s EXCEPT
                 !.parsedPlan = IF withPlan THEN history.plan ELSE @,
                 !.committedItems =
                     IF history.present /\ ~hasStrategistContent(@)
                     THEN @ \o buildHistoryItems(history) ELSE @,
                 !.taskProgress = IF withProgress THEN progress ELSE @,
                 !.taskProgressRef = IF withProgress THEN progress ELSE @]
    IN  IF s.restartFromEnv
        THEN IF payload.exists
             THEN [s1 EXCEPT !.checkpointMode = "auto-resume",
                             !.previousInput = payload.previous_input,
                             !.isLoading = TRUE]
             ELSE [s1 EXCEPT !.checkpointMode = "normal"]
        ELSE IF payload.exists
             THEN [s1 EXCEPT !.checkpointMode = "prompt",
                             !.previousInput = payload.previous_input]
             ELSE [s1 EXCEPT !.checkpointMode = "normal"]

\* handleCheckpointInfo of checkpointHandler.ts
handleCheckpointInfo(s, payload) ==
    LET history == payload.history
        withPlan == history.present /\ Len(history.plan) > 0
        withProgress == /\ history.present
                        /\ history.current_task # 0
                        /\ history.total_tasks # 0
        progress == [current |-> history.current_task,
                     total |-> history.total_tasks]
        s1 == [s EXCEPT
                 !.parsedPlan = IF withPlan THEN history.plan ELSE @,
                 !.committedItems =
                     IF history.present /\ ~hasStrategistContent(@)
                     THEN @ \o buildHistoryItems(history) ELSE @,
                 !.taskProgress = IF withProgress THEN progress ELSE @,
                 !.taskProgressRef = IF withProgress THEN progress ELSE @]
    IN  IF s.restartFromEnv
        THEN IF payload.exists
             THEN [s1 EXCEPT !.checkpointMode = "auto-resume",
                             !.previousInput = payload.previous_input,
                             !.isLoading = TRUE,
                             !.resumeTimers = @ + 1]
             ELSE [s1 EXCEPT !.checkpointMode = "error"]
        ELSE IF payload.exists
             THEN [s1 EXCEPT !.checkpointMode = "prompt",
                             !.previousInput = payload.previous_input]
             ELSE [s1 EXCEPT !.checkpointMode = "normal"]

\* a variant of the guard, with 'status' among the exempt types: C4 must
\* tell it from the guard of the code
StaleGuardMutant(isInterrupted, type) ==
    isInterrupted /\ type \notin {"checkpoint_info", "system_ready", "status"}

\* the stale-message guard of handleBridgeMessage
StaleGuard(isInterrupted, type) ==
    isInterrupted /\ type # "checkpoint_info" /\ type # "system_ready"

\* handleBridgeMessage(msg) of createMessageHandler
handleBridgeMessage(s, msg) ==
    IF StaleGuard(s.isInterruptedRef, msg.type)
    THEN [s EXCEPT !.lastStep = "dropped"]
    ELSE LET s0 == [s EXCEPT !.lastStep = "handled"]
             p == msg.payload
         IN  CASE msg.type = "ready" -> handleReadyMessage(s0)
               [] msg.type = "init" -> handleInitMessage(s0, p)
               [] msg.type = "status" -> handleStatusMessage(s0, p)
               [] msg.type = "log" -> handleLogMessage(s0, p)
               [] msg.type = "done" -> handleDoneMessage(s0)
               [] msg.type = "error" -> handleErrorMessage(s0, p)
               [] msg.type = "rag_status" -> handleRagStatusMessage(s0, p)
               [] msg.type = "system_ready" -> handleSystemReadyMessage(s0)
               [] msg.type = "system_status" -> handleSystemStatusMessage(s0, p)
               [] msg.type = "agent_event" -> handleAgentEventMessage(s0, p)
               [] msg.type = "plan_stream" -> handlePlanStreamMessage(s0, p)
               [] msg.type = "task_progress" -> handleTaskProgressMessage(s0, p)
               [] msg.type = "file_content" -> handleFileContentMessage(s0, p)
               [] msg.type = "checkpoint_info" ->
                    handleCheckpointInfo([s0 EXCEPT !.showMainUI = TRUE,
                                                    !.isSystemReady = TRUE], p)
               [] msg.type = "completed_run_info" ->
                    handleCompletedRunInfoMessage(s0, p)
               [] msg.type = "archive_complete" ->
                    handleArchiveCompleteMessage(s0, p)
               [] msg.type = "fresh_start_complete" ->
                    handleFreshStartCompleteMessage(s0)
               [] msg.type = "clear_checkpoint_complete" ->
                    handleClearCheckpointCompleteMessage(s0)
               [] msg.type = "final_summary" -> handleFinalSummaryMessage(s0, p)
               [] msg.type = "code_result" -> handleCodeResultMessage(s0, p)
               [] OTHER -> s0

(***************************************************************************)
(* State resets (utils/stateHelpers.ts).                                   *)
(***************************************************************************)
\* a variant of the full reset that leaves the ref of the task progress and
\* the item counter as they were: C32 must tell it from the reset of the code
applyFreshStartStateMutant(s) ==
    [s EXCEPT !.previousInput = "",
              !.taskProgress = NullProgress,
              !.committedItems = << >>,
              !.bannerCommitted = FALSE,
              !.planContent = "",
              !.isPlanComplete = FALSE,
              !.agents = << >>,
              !.activeFileContentRef = NullFile,
              !.systemStatus = "idle"]

applyFreshStartState(s) ==
    [s EXCEPT !.previousInput = "",
              !.taskProgress = NullProgress,
              !.taskProgressRef = NullProgress,
              !.committedItems = << >>,
              !.bannerCommitted = FALSE,
              !.planContent = "",
              !.isPlanComplete = FALSE,
              !.agents = << >>,
              !.activeFileContentRef = NullFile,
              !.systemStatus = "idle",
              !.itemIdCounterRef = 0]

\* a variant of the interrupt reset that keeps the registry of agents and
\* the system status: C34 must tell it from the reset of the code
applyInterruptResetStateMutant(s) ==
    [s EXCEPT !.isLoading = FALSE,
              !.status = "null",
              !.showMainUI = FALSE,
              !.isSystemReady = FALSE,
              !.checkpointMode = "checking",
              !.planContent = "",
              !.isPlanComplete = FALSE,
              !.taskProgress = NullProgress,
              !.isInterruptedRef = FALSE]

applyInterruptResetState(s) ==
    [s EXCEPT !.isLoading = FALSE,
              !.status = "null",
              !.showMainUI = FALSE,
              !.isSystemReady = FALSE,
              !.checkpointMode = "checking",
              !.systemStatus = "idle",
              !.agents = << >>,
              !.planContent = "",
              !.isPlanComplete = FALSE,
              !.taskProgress = NullProgress,
              !.isInterruptedRef = FALSE]

(***************************************************************************)
(* Key handling (the useInput callback of Run.tsx:401-465).                *)
(***************************************************************************)
\* agents.find(a => a.status === 'active'): its index, 0 when there is none
ActiveAgent(list) ==
    IF \E i \in DOMAIN list : list[i].status = "active"
    THEN CHOOSE i \in DOMAIN list :
             /\ list[i].status = "active"
             /\ \A j \in 1..(i - 1) : list[j].status # "active"
    ELSE 0

\* a variant of the entry, tagged with the first agent of the registry,
\* active or not: C6 must tell it from the entry of the code
InterruptEntryMutant(s) ==
    IF Len(s.agents) > 0
    THEN << Item(TimedId("interrupt", s.now), "log",
                 Content("Run Interrupted", 0), s.agents[1].name,
                 Undefined) >>
    ELSE << >>

\* the entry the confirmed interrupt appends
InterruptEntry(s) ==
    LET i == ActiveAgent(s.agents)
    IN  IF i # 0
        THEN << Item(TimedId("interrupt", s.now), "log",
                     Content("Run Interrupted", 0), s.agents[i].name,
                     Undefined) >>
        ELSE << >>

\* a variant of the kill that drops the reference and leaves the process
\* running: C21 must tell it from the kill of the code
KillBridgeMutant(s) ==
    IF s.bridgeRef # NoProc
    THEN [s EXCEPT !.bridgeRef = NoProc]
    ELSE s

\* bridgeRef.current.kill('SIGKILL'); bridgeRef.current = null
KillBridge(s) ==
    IF s.bridgeRef # NoProc
    THEN [s EXCEPT !.killed = @ \cup {s.bridgeRef}, !.bridgeRef = NoProc]
    ELSE s

\* the second ESC within the window (Run.tsx:431-454)
ConfirmInterrupt(s) ==
    LET s1 == [s EXCEPT !.escTimeoutRef = NoTimer,
                        !.escPressedOnce = FALSE,
                        !.showInterruptWarning = FALSE,
                        !.committedItems = @ \o InterruptEntry(s)]
        s2 == applyInterruptResetState(KillBridge(s1))
    IN  [s2 EXCEPT !.bridgeRestartCounter = @ + 1,
                   !.bridgeEffectPending = TRUE,
                   !.lastStep = "esc-confirm"]

\* a variant of the first ESC, which shows the warning without arming its
\* timer: C7 must tell it from the first ESC of the code
ArmInterruptMutant(s) ==
    [s EXCEPT !.escPressedOnce = TRUE,
              !.showInterruptWarning = TRUE,
              !.lastStep = "esc-arm"]

\* the first ESC (Run.tsx:455-463)
ArmInterrupt(s) ==
    [s EXCEPT !.escPressedOnce = TRUE,
              !.showInterruptWarning = TRUE,
              !.escTimeoutRef = EscWindow,
              !.lastStep = "esc-arm"]

\* a key other than Ctrl+C / Ctrl+D while idle (Run.tsx:422-428)
IdleKey(s) ==
    IF s.escPressedOnce
    THEN [s EXCEPT !.escPressedOnce = FALSE, !.showInterruptWarning = FALSE]
    ELSE s

\* ESC
EscapeInput(s) ==
    IF ~s.isLoading THEN [IdleKey(s) EXCEPT !.lastStep = "esc-idle"]
    ELSE IF s.escPressedOnce THEN ConfirmInterrupt(s)
    ELSE ArmInterrupt(s)

\* a variant of Ctrl+C, which exits on the first press while idle: C8 must
\* tell it from the Ctrl+C of the code
ExitInputMutant(s) ==
    IF ~s.isLoading
    THEN [s EXCEPT !.exitTimeoutRef = NoTimer,
                   !.exitPressedOnce = FALSE,
                   !.showExitWarning = FALSE,
                   !.exited = TRUE,
                   !.lastStep = "exit-confirm"]
    ELSE [s EXCEPT !.lastStep = "exit-busy"]

\* Ctrl+C or Ctrl+D (Run.tsx:402-420)
ExitInput(s) ==
    IF ~s.isLoading
    THEN IF s.exitPressedOnce
         THEN [s EXCEPT !.exitTimeoutRef = NoTimer,
                        !.exitPressedOnce = FALSE,
                        !.showExitWarning = FALSE,
                        !.exited = TRUE,
                        !.lastStep = "exit-confirm"]
         ELSE [s EXCEPT !.exitPressedOnce = TRUE,
                        !.showExitWarning = TRUE,
                        !.exitTimeoutRef = ExitWindow,
                        !.lastStep = "exit-arm"]
    ELSE [s EXCEPT !.lastStep = "exit-busy"]

(***************************************************************************)
(* handleSubmit (Run.tsx:333-395).                                         *)
(***************************************************************************)
\* input.trim().toLowerCase(), on the inputs of the model
Normalize(input) ==
    CASE input = " Yes " -> "yes"
      [] input = "NO" -> "no"
      [] OTHER -> input

FreshStart(s) ==
    Write([applyFreshStartState(s) EXCEPT !.staticKey = @ + 1],
          Command("fresh_start", Undefined, Undefined))

\* a variant of handleSubmit that sends what was typed at a question as a
\* prompt: C33 must tell it from the handleSubmit of the code
handleSubmitMutant(s, input) ==
    LET answer == Normalize(input)
    IN  IF answer = "exit" THEN [s EXCEPT !.exited = TRUE]
        ELSE IF s.checkpointMode = "prompt" /\ answer = "yes"
        THEN Write([s EXCEPT !.checkpointMode = "auto-resume",
                             !.isLoading = TRUE],
                   Command("prompt", "", "true"))
        ELSE IF s.checkpointMode = "completed-run-prompt" /\ answer = "yes"
        THEN Write(s, Command("archive_and_continue", Undefined, Undefined))
        ELSE IF s.checkpointMode \in {"prompt", "completed-run-prompt"}
                /\ answer = "no"
        THEN FreshStart(s)
        ELSE Write([s EXCEPT !.isInterruptedRef = FALSE,
                             !.isLoading = TRUE,
                             !.status = "Sending to backend..."],
                   Command("prompt", input, Bool(s.restartFromEnv)))

handleSubmit(s, input) ==
    LET answer == Normalize(input)
    IN  IF answer = "exit" THEN [s EXCEPT !.exited = TRUE]
        ELSE IF s.checkpointMode = "prompt"
        THEN IF answer = "yes"
             THEN Write([s EXCEPT !.checkpointMode = "auto-resume",
                                  !.isLoading = TRUE],
                        Command("prompt", "", "true"))
             ELSE IF answer = "no" THEN FreshStart(s)
             ELSE s
        ELSE IF s.checkpointMode = "completed-run-prompt"
        THEN IF answer = "yes"
             THEN Write(s, Command("archive_and_continue", Undefined,
                                   Undefined))
             ELSE IF answer = "no" THEN FreshStart(s)
             ELSE s
        ELSE Write([s EXCEPT !.isInterruptedRef = FALSE,
                             !.isLoading = TRUE,
                             !.status = "Sending to backend..."],
                   \* flags.restart is not given on the command line
                   Command("prompt", input, Bool(s.restartFromEnv)))

\* PromptInput is rendered (Run.tsx:500,513) and takes Enter
\* (PromptInput.tsx:68-79)
CanSubmit(s) ==
    /\ s.showMainUI
    /\ s.isSystemReady
    /\ s.checkpointMode \notin {"error", "checking"}
    /\ ~s.isLoading

(***************************************************************************)
(* Inputs: the payloads the worker sends and what the user types.          *)
(***************************************************************************)
PlanEntry(i) ==
    CASE i = 1 -> "Task 1: relax the cell"
      [] i = 2 -> "Task 2: compute the bands"
      [] OTHER -> "Task 3: post-process"

Plan(n) == [i \in 1..n |-> PlanEntry(i)]

NoHistory ==
    [present |-> FALSE, plan |-> << >>, completed |-> 0,
     operator_items_by_task |-> << >>, evaluator_items_by_task |-> << >>,
     step_results |-> << >>, current_task |-> 0, total_tasks |-> 0,
     full_plan_text |-> ""]

\* a history of a plan of MaxTask tasks with k tasks completed; op and ev
\* tell whether items of the in-progress task were recorded
History(k, op, ev) ==
    [present |-> TRUE, plan |-> Plan(MaxTask), completed |-> k,
     operator_items_by_task |->
         [i \in (0..(k - 1)) \cup (IF op THEN {k} ELSE {}) |->
             << [type |-> "tool", content |-> "Executed code",
                 isError |-> "false"] >>],
     evaluator_items_by_task |->
         [i \in (0..(k - 1)) \cup (IF ev THEN {k} ELSE {}) |->
             << [type |-> "log", content |-> "Evaluation Failed",
                 isError |-> Undefined] >>],
     step_results |-> [i \in 0..(k - 1) |-> "Converged"],
     current_task |-> k + 1, total_tasks |-> MaxTask,
     full_plan_text |-> ""]

Histories ==
    { History(0, FALSE, FALSE), History(0, TRUE, TRUE),
      History(MaxTask - 1, TRUE, FALSE) }

CheckpointPayloads ==
    { [exists |-> e, previous_input |-> "", history |-> NoHistory] :
        e \in BOOLEAN }
    \cup { [exists |-> TRUE, previous_input |-> "band structure of Si",
            history |-> h] : h \in Histories }

AgentPayload(agent, event, text, isError, output) ==
    [agent |-> agent, event |-> event, status |-> text, is_error |-> isError,
     output |-> output]

AgentPayloads ==
    { AgentPayload("operator", "start", "Working", FALSE, ""),
      AgentPayload("operator", "update", "Working", FALSE, ""),
      AgentPayload("operator", "log", "Wrote input file", FALSE, ""),
      AgentPayload("operator", "step_complete", "Executed code", FALSE, ""),
      AgentPayload("operator", "step_complete", NonString, FALSE, ""),
      AgentPayload("evaluator", "log", "Energy converged", FALSE, ""),
      AgentPayload("evaluator", "complete", "Evaluation Passed", FALSE, ""),
      AgentPayload("strategist", "step_complete", "Reviewed Plan", FALSE,
                   "1. relax 2. bands") }

StatusPayloads ==
    { [present |-> TRUE, text |-> "Thinking", loading |-> TRUE],
      [present |-> FALSE, text |-> "", loading |-> FALSE] }

TaskProgressPayloads ==
    { [present |-> TRUE, current |-> c, total |-> MaxTask] : c \in 1..MaxTask }

CodeResultPayloads ==
    { [output |-> "Traceback", success |-> "false", file_path |-> "run.py"] }

FinalSummaryPayloads == { [content |-> "The gap is 1.1 eV"] }

SubmitInputs == {"exit", " Yes ", "NO", "band structure of Si"}

(***************************************************************************)
(* Initial state: Run has mounted and its bridge effect has run.           *)
(***************************************************************************)
InitWith(found, interrupted) ==
    /\ messages = IF found THEN << >>
                  ELSE << [role |-> "system",
                           content |-> << "Error: Could not find bridge.py" >>] >>
    /\ status = "null"
    /\ isLoading = FALSE
    /\ modelName = ""
    /\ isResizing = FALSE
    /\ ragStatus = "null"
    /\ isSystemReady = FALSE
    /\ showMainUI = FALSE
    /\ systemStatus = "idle"
    /\ agents = << >>
    /\ planContent = ""
    /\ isPlanComplete = FALSE
    /\ activeFileContentRef = NullFile
    /\ lastCodeResultIsErrorRef = FALSE
    /\ taskProgress = NullProgress
    /\ taskProgressRef = NullProgress
    /\ committedItems = << >>
    /\ bannerCommitted = FALSE
    /\ checkpointMode = "checking"
    /\ previousInput = ""
    /\ escPressedOnce = FALSE
    /\ showInterruptWarning = FALSE
    /\ isInterruptedRef = interrupted
    /\ escTimeoutRef = NoTimer
    /\ exitPressedOnce = FALSE
    /\ showExitWarning = FALSE
    /\ exitTimeoutRef = NoTimer
    /\ resizeCounter = 0
    /\ staticKey = 0
    /\ bridgeRef = IF found THEN 0 ELSE NoProc
    /\ resizeTimeoutRef = FALSE
    /\ bridgeRestartCounter = 0
    /\ itemIdCounterRef = 0
    /\ parsedPlan = << >>
    /\ parsedPlanRef = << >>
    /\ restartFromEnv \in BOOLEAN
    /\ spawned = IF found THEN 1 ELSE 0
    /\ killed = {}
    /\ sent = << >>
    /\ bridgeEffectPending = FALSE
    /\ readyTimers = 0
    /\ ragTimer = FALSE
    /\ resumeTimers = 0
    /\ resizeRestore = [pending |-> FALSE, items |-> << >>]
    /\ exited = FALSE
    /\ now = 0
    /\ nMsgs = 0
    /\ nKeys = 0
    /\ lastStep = "init"
    /\ lastMsg = "none"

\* the output of the worker is followed message by message
NoStream ==
    /\ emitted = << >> /\ pipe = << >> /\ dispatched = << >>
    /\ fmtCall = "none" /\ fmtResult = "none"

Init == NoStream /\ \E found \in BOOLEAN : InitWith(found, FALSE)

(***************************************************************************)
(* Inbound messages: the data listener of the bridge (Run.tsx:308-316)     *)
(* hands each parsed line to handleBridgeMessage and swallows what it      *)
(* throws.                                                                 *)
(***************************************************************************)
Receive(msg) ==
    /\ ~exited
    /\ spawned > 0
    /\ nMsgs < MaxMsgs
    /\ nMsgs' = nMsgs + 1
    /\ nKeys' = nKeys
    /\ lastMsg' = msg.type
    /\ UNCHANGED << streamVars, formatVars >>
    /\ Becomes(handleBridgeMessage(State, msg))

Msg(type, payload) == [type |-> type, payload |-> payload]
NoPayload == [none |-> TRUE]

OnReady == Receive(Msg("ready", NoPayload))
OnInit == Receive(Msg("init", [model |-> "gpt-4o"]))
OnStatus == \E p \in StatusPayloads : Receive(Msg("status", p))
OnLog == Receive(Msg("log", [text |-> "worker output"]))
OnDone == Receive(Msg("done", NoPayload))
OnError == Receive(Msg("error", [message |-> "boom", traceback |-> ""]))
OnRagStatus ==
    \E st \in {"done"} : Receive(Msg("rag_status", [status |-> st]))
OnSystemReady == Receive(Msg("system_ready", NoPayload))
OnSystemStatus ==
    \E st \in {"running", "completed"} :
        Receive(Msg("system_status", [status |-> st]))
OnAgentEvent == \E p \in AgentPayloads : Receive(Msg("agent_event", p))
OnPlanStream ==
    Receive(Msg("plan_stream", [content |-> "1. relax 2. bands",
                                is_complete |-> TRUE,
                                parsed_plan |-> Plan(MaxTask)]))
OnTaskProgress ==
    \E p \in TaskProgressPayloads : Receive(Msg("task_progress", p))
OnFileContent ==
    Receive(Msg("file_content", [name |-> "run.py", content |-> "print(1)"]))
OnCheckpointInfo ==
    \E p \in CheckpointPayloads : Receive(Msg("checkpoint_info", p))
OnCompletedRunInfo ==
    Receive(Msg("completed_run_info",
                [exists |-> TRUE, previous_input |-> "band structure of Si",
                 summary |-> "The gap is 0.6 eV"]))
OnArchiveComplete == Receive(Msg("archive_complete", [success |-> TRUE]))
OnFreshStartComplete == Receive(Msg("fresh_start_complete", NoPayload))
OnClearCheckpointComplete ==
    Receive(Msg("clear_checkpoint_complete", NoPayload))
OnFinalSummary ==
    \E p \in FinalSummaryPayloads : Receive(Msg("final_summary", p))
OnCodeResult == \E p \in CodeResultPayloads : Receive(Msg("code_result", p))
OnUnknown == Receive(Msg("heartbeat", NoPayload))

(***************************************************************************)
(* Effects that run after a render.                                        *)
(***************************************************************************)
Quiet ==
    /\ nMsgs' = nMsgs /\ nKeys' = nKeys /\ lastMsg' = "none"
    /\ UNCHANGED << streamVars, formatVars >>

\* parsedPlanRef.current = parsedPlan (Run.tsx:148-150)
PlanRefEffect ==
    /\ ~exited
    /\ parsedPlanRef # parsedPlan
    /\ Quiet
    /\ Becomes([State EXCEPT !.parsedPlanRef = parsedPlan,
                             !.lastStep = "effect"])

\* the banner is committed once the model name is known (Run.tsx:191-199)
BannerEffect ==
    /\ ~exited
    /\ modelName # "" /\ ~bannerCommitted
    /\ Quiet
    /\ Becomes([State EXCEPT
                  !.bannerCommitted = TRUE,
                  !.committedItems =
                      IF SomeItem(@, LAMBDA it : it.id = FixedId("banner"))
                      THEN @
                      ELSE Append(@, Item(FixedId("banner"), "banner",
                                          Content(modelName, 0), Undefined,
                                          Undefined)),
                  !.lastStep = "effect"])

\* the bridge effect runs again for a new bridgeRestartCounter
\* (Run.tsx:239-323): the cleanup kills the child of the previous run, then
\* a child is spawned; MaxMsgs more messages are followed
BridgeEffect ==
    /\ ~exited
    /\ bridgeEffectPending
    /\ nMsgs' = 0 /\ nKeys' = nKeys /\ lastMsg' = "none"
    /\ UNCHANGED << streamVars, formatVars >>
    /\ Becomes([State EXCEPT !.bridgeEffectPending = FALSE,
                             !.killed = @ \cup {spawned - 1},
                             !.bridgeRef = spawned,
                             !.spawned = @ + 1,
                             !.lastStep = "effect"])

\* a variant of the 'error' listener that asks for a new worker: C20 must
\* tell it from the listener of the code
onChildErrorMutant(s) ==
    [s EXCEPT !.messages =
                  Append(@, [role |-> "system",
                             content |-> << "Bridge Error: spawn ENOENT" >>]),
              !.bridgeEffectPending = TRUE,
              !.lastStep = "child-error"]

\* child.on('error', ...) (Run.tsx:318-320): the spawn failed or the channel
\* broke; a system message is appended and nothing else is done
onChildError(s) ==
    [s EXCEPT !.messages =
                  Append(@, [role |-> "system",
                             content |-> << "Bridge Error: spawn ENOENT" >>]),
              !.lastStep = "child-error"]

\* the 'error' event of the child; it is followed while the session shows
\* no such error yet
BridgeError ==
    /\ ~exited
    /\ spawned > 0
    /\ \A i \in 1..Len(messages) :
           messages[i].content # << "Bridge Error: spawn ENOENT" >>
    /\ Quiet
    /\ Becomes(onChildError(State))

EffectsPending ==
    \/ parsedPlanRef # parsedPlan
    \/ (modelName # "" /\ ~bannerCommitted)
    \/ bridgeEffectPending

(***************************************************************************)
(* The user.                                                               *)
(***************************************************************************)
\* the timers of 1000 ms and less
ShortTimers ==
    readyTimers > 0 \/ ragTimer \/ resumeTimers > 0

\* a key, a line entered or a resize; the user is slower than the effects
\* and the short timers
Typed(text) ==
    /\ ~exited
    /\ ~EffectsPending
    /\ ~ShortTimers
    /\ nKeys < MaxKeys
    /\ nKeys' = nKeys + 1
    /\ nMsgs' = nMsgs
    /\ lastMsg' = text
    /\ UNCHANGED << streamVars, formatVars >>

Gesture == Typed("none")

EscapeKey ==
    /\ Gesture
    /\ isLoading \/ escPressedOnce
    /\ Becomes(EscapeInput(State))

ExitKey ==
    /\ Gesture
    /\ Becomes(ExitInput(State))

\* Enter in the prompt: handleSubmit, and Run's own key handler sees the key
\* (lastMsg keeps the line that was entered)
Submit ==
    /\ CanSubmit(State)
    /\ \E input \in SubmitInputs :
          /\ Typed(input)
          /\ Becomes([handleSubmit(IdleKey(State), input)
                         EXCEPT !.lastStep = "submit"])

\* the terminal is resized (Run.tsx:206-229): the 150 ms timer is armed anew
Resize ==
    /\ Gesture
    /\ ~resizeRestore.pending
    /\ Becomes([State EXCEPT !.resizeTimeoutRef = TRUE,
                             !.lastStep = "resize"])

(***************************************************************************)
(* Timers.                                                                 *)
(***************************************************************************)
Timer == ~exited /\ ~EffectsPending /\ Quiet

\* 150 ms after the resize: the log is emptied, to be put back 50 ms later
ResizeTimeout ==
    /\ Timer
    /\ resizeTimeoutRef
    /\ Becomes([State EXCEPT
                  !.resizeTimeoutRef = FALSE,
                  !.resizeRestore = [pending |-> TRUE, items |-> committedItems],
                  !.committedItems = << >>,
                  !.isResizing = ~@,
                  !.lastStep = "resize-clear"])

ResizeRestore ==
    /\ Timer
    /\ resizeRestore.pending
    /\ Becomes([State EXCEPT
                  !.committedItems = resizeRestore.items,
                  !.resizeCounter = @ + 1,
                  !.resizeRestore = [pending |-> FALSE, items |-> << >>],
                  !.lastStep = "resize-restore"])

\* 3000 ms after the first ESC
EscTimeout ==
    /\ Timer
    /\ escTimeoutRef = 0
    /\ Becomes([State EXCEPT !.escTimeoutRef = NoTimer,
                             !.escPressedOnce = FALSE,
                             !.showInterruptWarning = FALSE,
                             !.lastStep = "esc-expire"])

\* 3000 ms after the first Ctrl+C
ExitTimeout ==
    /\ Timer
    /\ exitTimeoutRef = 0
    /\ Becomes([State EXCEPT !.exitTimeoutRef = NoTimer,
                             !.exitPressedOnce = FALSE,
                             !.showExitWarning = FALSE,
                             !.lastStep = "exit-expire"])

\* 500 ms after 'ready' (messageHandlers.ts:54-58)
ReadyTimeout ==
    /\ Timer
    /\ readyTimers > 0
    /\ Becomes(Write([State EXCEPT !.readyTimers = @ - 1,
                                   !.lastStep = "timer"],
                     Command("check_checkpoint", Undefined, Undefined)))

\* 1000 ms after the RAG status became 'done' (Run.tsx:180-185)
RagTimeout ==
    /\ Timer
    /\ ragTimer
    /\ Becomes(Write([State EXCEPT !.ragTimer = FALSE,
                                   !.showMainUI = TRUE,
                                   !.lastStep = "timer"],
                     Command("check_checkpoint", Undefined, Undefined)))

\* 100 ms after an auto-resume was resolved (checkpointHandler.ts:192-196)
ResumeTimeout ==
    /\ Timer
    /\ resumeTimers > 0
    /\ Becomes(Write([State EXCEPT !.resumeTimers = @ - 1,
                                   !.lastStep = "timer"],
                     Command("prompt", "", "true")))

\* the seconds until the next 3000 ms timer is due
NextDue ==
    IF escTimeoutRef > 0 /\ (exitTimeoutRef <= 0 \/ escTimeoutRef <= exitTimeoutRef)
    THEN escTimeoutRef
    ELSE exitTimeoutRef

\* time passes while a warning is shown, until its timer is due; the
\* callbacks that were due have run
Tick ==
    /\ Timer
    /\ escTimeoutRef > 0 \/ exitTimeoutRef > 0
    /\ escTimeoutRef # 0 /\ exitTimeoutRef # 0
    /\ now + NextDue <= MaxNow
    /\ ~ShortTimers
    /\ ~resizeTimeoutRef /\ ~resizeRestore.pending
    /\ Becomes([State EXCEPT
                  !.now = @ + NextDue,
                  !.escTimeoutRef = IF @ > 0 THEN @ - NextDue ELSE @,
                  !.exitTimeoutRef = IF @ > 0 THEN @ - NextDue ELSE @,
                  !.lastStep = "tick"])

Next ==
    \/ OnReady \/ OnInit \/ OnStatus \/ OnLog \/ OnDone \/ OnError
    \/ OnRagStatus \/ OnSystemReady \/ OnSystemStatus \/ OnAgentEvent
    \/ OnPlanStream \/ OnTaskProgress \/ OnFileContent \/ OnCheckpointInfo
    \/ OnCompletedRunInfo \/ OnArchiveComplete \/ OnFreshStartComplete
    \/ OnClearCheckpointComplete \/ OnFinalSummary \/ OnCodeResult
    \/ OnUnknown
    \/ PlanRefEffect \/ BannerEffect \/ BridgeEffect
    \/ EscapeKey \/ ExitKey \/ Submit \/ Resize
    \/ ResizeTimeout \/ ResizeRestore \/ EscTimeout \/ ExitTimeout
    \/ ReadyTimeout \/ RagTimeout \/ ResumeTimeout \/ Tick

Spec == Init /\ [][Next]_vars

\* No step of the program sets isInterruptedRef, so Spec never reaches a
\* state that holds it set.  To exercise the code that reads it and clears
\* it, SpecGuard lets the session start with either value of the flag.
InitGuard ==
    NoStream /\ \E found \in BOOLEAN, g \in BOOLEAN : InitWith(found, g)

SpecGuard == InitGuard /\ [][Next]_vars

\* The session with the 'error' event of the child among its steps, and
\* without the auto-restart flag, which has no part in spawning.
InitSpawn == Init /\ ~restartFromEnv

NextSpawn ==
    \/ OnReady \/ OnInit \/ OnStatus \/ OnLog \/ OnDone \/ OnError
    \/ OnRagStatus \/ OnSystemReady \/ OnSystemStatus \/ OnAgentEvent
    \/ OnPlanStream \/ OnTaskProgress \/ OnFileContent \/ OnCheckpointInfo
    \/ OnCompletedRunInfo \/ OnArchiveComplete \/ OnFreshStartComplete
    \/ OnClearCheckpointComplete \/ OnFinalSummary \/ OnCodeResult
    \/ OnUnknown
    \/ BridgeError
    \/ PlanRefEffect \/ BannerEffect \/ BridgeEffect
    \/ EscapeKey \/ ExitKey \/ Submit \/ Resize
    \/ ResizeTimeout \/ ResizeRestore \/ EscTimeout \/ ExitTimeout
    \/ ReadyTimeout \/ RagTimeout \/ Tick

SpecSpawn == InitSpawn /\ [][NextSpawn]_vars

(***************************************************************************)
(* The worker's standard output as a byte stream (Run.tsx:308-316, the     *)
(* same listener as useBridge.ts:58-69).  A line of the worker is two      *)
(* fragments and a newline; a 'data' event delivers any non-empty prefix   *)
(* of what is in the pipe.                                                 *)
(***************************************************************************)
MaxLines == 3

\* a line the worker wrote: a JSON message, or text that is not JSON
StreamLine(json, msg) == [json |-> json, msg |-> msg]

StreamLines ==
    { StreamLine(TRUE, Msg("log", [text |-> "alpha"])),
      StreamLine(TRUE, Msg("log", [text |-> "beta"])),
      StreamLine(FALSE, Msg("log", [text |-> "Traceback (most recent)"])),
      StreamLine(TRUE,
                 Msg("checkpoint_info",
                     [exists |-> TRUE,
                      previous_input |-> "band structure of Si",
                      history |-> History(0, FALSE, FALSE)])),
      StreamLine(TRUE,
                 Msg("checkpoint_info",
                     [exists |-> FALSE, previous_input |-> "",
                      history |-> NoHistory])),
      StreamLine(TRUE,
                 Msg("agent_event",
                     AgentPayload("operator", "start", "Working", FALSE,
                                  ""))),
      StreamLine(TRUE,
                 Msg("agent_event",
                     AgentPayload("strategist", "step_complete",
                                  "Reviewed Plan", FALSE,
                                  "1. relax 2. bands"))),
      StreamLine(TRUE,
                 Msg("agent_event",
                     AgentPayload("strategist", "step_complete",
                                  "Created Replan", FALSE, ""))) }

Streams == UNION { [1..n -> StreamLines] : n \in 1..MaxLines }

\* part 1 and part 2 are the halves of the text of a line, part 0 its "\n"
Token(line, part) == [line |-> line, part |-> part]
Bytes(lines) ==
    [k \in 1..(3 * Len(lines)) |->
        Token(((k - 1) \div 3) + 1, (((k - 1) % 3) + 1) % 3)]

\* data.toString().split('\n')
RECURSIVE SplitLines(_)
SplitLines(chunk) ==
    IF \A k \in 1..Len(chunk) : chunk[k].part # 0
    THEN << chunk >>
    ELSE LET k == CHOOSE i \in 1..Len(chunk) :
                      /\ chunk[i].part = 0
                      /\ \A j \in 1..(i - 1) : chunk[j].part # 0
         IN  << SubSeq(chunk, 1, k - 1) >>
                 \o SplitLines(SubSeq(chunk, k + 1, Len(chunk)))

\* JSON.parse(line) returns for the whole text of a JSON line, and throws
\* for a half of it and for text that is not JSON
Parses(lines, piece) ==
    /\ Len(piece) = 2
    /\ piece[1].part = 1 /\ piece[2].part = 2
    /\ piece[1].line = piece[2].line
    /\ lines[piece[1].line].json

\* a variant of the loop body that ends the session on a line that does not
\* parse: C12 must tell it from the loop body of the code
OnLineMutant(acc, lines, piece) ==
    IF piece = << >>
    THEN acc
    ELSE IF Parses(lines, piece)
         THEN [state |-> handleBridgeMessage(acc.state,
                                             lines[piece[1].line].msg),
               dispatched |-> Append(acc.dispatched, piece[1].line)]
         ELSE [acc EXCEPT !.state.exited = TRUE]

\* the body of the loop over the lines of a chunk: an empty line is skipped,
\* a line that parses is dispatched, and the catch swallows what JSON.parse
\* threw
OnLine(acc, lines, piece) ==
    IF piece = << >>
    THEN acc
    ELSE IF Parses(lines, piece)
         THEN [state |-> handleBridgeMessage(acc.state,
                                             lines[piece[1].line].msg),
               dispatched |-> Append(acc.dispatched, piece[1].line)]
         ELSE acc

RECURSIVE DispatchLines(_, _, _)
DispatchLines(acc, lines, pieces) ==
    IF pieces = << >>
    THEN acc
    ELSE DispatchLines(OnLine(acc, lines, Head(pieces)), lines, Tail(pieces))

\* a 'data' event of the child's stdout; effects of the previous render have
\* run before it
OnData ==
    \E n \in 1..Len(pipe) :
        LET chunk == SubSeq(pipe, 1, n)
            acc == DispatchLines(
                       [state |-> [State EXCEPT !.lastStep = "data"],
                        dispatched |-> dispatched],
                       emitted, SplitLines(chunk))
            calls == Len(acc.dispatched) - Len(dispatched)
        IN  /\ ~exited
            /\ spawned > 0
            /\ ~EffectsPending
            /\ pipe' = SubSeq(pipe, n + 1, Len(pipe))
            /\ emitted' = emitted
            /\ dispatched' = acc.dispatched
            /\ UNCHANGED formatVars
            /\ nMsgs' = nMsgs + calls
            /\ nKeys' = nKeys
            /\ lastMsg' = IF calls > 0
                          THEN emitted[acc.dispatched[Len(acc.dispatched)]]
                                   .msg.type
                          ELSE "none"
            /\ Becomes(acc.state)

InitStream ==
    /\ InitWith(TRUE, FALSE)
    /\ emitted \in Streams
    /\ pipe = Bytes(emitted)
    /\ dispatched = << >>
    /\ fmtCall = "none" /\ fmtResult = "none"

NextStream == OnData \/ PlanRefEffect \/ ResumeTimeout

SpecStream == InitStream /\ [][NextStream]_vars

(***************************************************************************)
(* Reconstruction from a checkpoint (checkpointHandler.ts:22-178): the     *)
(* worker answers with checkpoint_info, once or twice with the same        *)
(* history, or after an event of the strategist of a live run.             *)
(***************************************************************************)
Recorded(type, content, isError) ==
    [type |-> type, content |-> content, isError |-> isError]

\* what the worker recorded for one task: the operator's items ...
OpSeqs ==
    { << >>,
      << Recorded("tool", "Executed code", "false") >>,
      << Recorded("tool", "Executed code", "true"),
         Recorded("log", "Wrote input file", Undefined) >> }

\* ... and the evaluator's
EvSeqs ==
    { << >>, << Recorded("log", "Evaluation Failed", "true") >> }

\* history.plan and history.full_plan_text
PlanTexts ==
    { << << >>, "" >>, << << >>, "1. relax 2. bands" >>,
      << Plan(MaxTask + 1), "" >> }

RebuildHistories ==
    UNION {
        { [present |-> TRUE, plan |-> pt[1], completed |-> k,
           operator_items_by_task |-> ops,
           evaluator_items_by_task |-> evs,
           step_results |-> res,
           current_task |-> k + 1, total_tasks |-> MaxTask + 1,
           full_plan_text |-> pt[2]] :
            pt \in PlanTexts, ops \in [0..k -> OpSeqs],
            evs \in [0..k -> EvSeqs],
            res \in [0..(k - 1) -> {"", "Converged"}] } :
        k \in 0..MaxTask }

CheckpointLine(h) ==
    StreamLine(TRUE, Msg("checkpoint_info",
                         [exists |-> TRUE,
                          previous_input |-> "band structure of Si",
                          history |-> h]))

PlanReviewedLine ==
    StreamLine(TRUE, Msg("agent_event",
                         AgentPayload("strategist", "step_complete",
                                      "Reviewed Plan", FALSE,
                                      "1. relax 2. bands")))

InitRebuild ==
    /\ InitWith(TRUE, FALSE)
    /\ ~restartFromEnv
    /\ \E h \in RebuildHistories :
           emitted \in { << CheckpointLine(h) >>,
                         << CheckpointLine(h), CheckpointLine(h) >>,
                         << PlanReviewedLine, CheckpointLine(h) >> }
    /\ pipe = Bytes(emitted)
    /\ dispatched = << >>
    /\ fmtCall = "none" /\ fmtResult = "none"

NextRebuild == OnData \/ PlanRefEffect

SpecRebuild == InitRebuild /\ [][NextRebuild]_vars

(***************************************************************************)
(* Properties.                                                             *)
(***************************************************************************)
IsPrefix(s, t) == Len(s) <= Len(t) /\ SubSeq(t, 1, Len(s)) = s

IsHeader(it) == it.type \in {"agent-header", "evaluator-header"}

\* the item types the dispatcher handlers append as content of an agent
ContentTypes ==
    {"tool", "log", "evaluation-summary", "agent-status", "evaluator-status",
     "code-snippet", "code-result"}

\* the step is an ESC key press
EscPress ==
    nKeys' = nKeys + 1 /\ lastStep' \in {"esc-idle", "esc-arm", "esc-confirm"}

\* the step is a Ctrl+C or Ctrl+D key press
ExitPress ==
    nKeys' = nKeys + 1
    /\ lastStep' \in {"exit-arm", "exit-confirm", "exit-busy"}

\* the step is the fresh-start reset of handleSubmit
FreshStartStep == lastStep' = "submit" /\ staticKey' = staticKey + 1

\* the log with the items a resize has put aside for 50 ms
FullLog ==
    IF resizeRestore.pending THEN resizeRestore.items \o committedItems
    ELSE committedItems

\* C1: the committed log holds at most one header item for each pair of an
\* agent and a task number, whether the headers came from live events or
\* from the reconstruction of a checkpoint.
C1_OneHeaderPerTask ==
    \A i, j \in 1..Len(committedItems) :
        ( /\ i < j
          /\ IsHeader(committedItems[i]) /\ IsHeader(committedItems[j])
          /\ committedItems[i].agentName = committedItems[j].agentName )
        => committedItems[i].id.n # committedItems[j].id.n

\* C2: every content item a dispatcher handler appended for an agent has,
\* at a lower index of the log, a header item of that agent.
C2_HeaderBeforeContent ==
    \A j \in 1..Len(committedItems) :
        ( /\ committedItems[j].type \in ContentTypes
          /\ committedItems[j].id.k # "interrupt" )
        => \E i \in 1..(j - 1) :
              /\ IsHeader(committedItems[i])
              /\ committedItems[i].agentName = committedItems[j].agentName

\* C3: in the state right after a confirmed interrupt the stale-message
\* guard (isInterruptedRef) is set.
C3_InterruptSetsGuard == lastStep = "esc-confirm" => isInterruptedRef

\* C4: while isInterruptedRef is set, dispatching a message whose type is
\* neither system_ready nor checkpoint_info changes nothing of the session
\* state and writes no command to the worker.
C4_StaleMessageDropped ==
    [][ ( /\ isInterruptedRef
          /\ nMsgs' = nMsgs + 1
          /\ lastMsg' \notin {"system_ready", "checkpoint_info"} )
        => UNCHANGED sessionVars ]_vars

C4_Witness ==
    /\ isInterruptedRef
    /\ lastStep = "dropped"
    /\ lastMsg = "agent_event"
    /\ isSystemReady

C6_AlwaysOneEntry ==
    [][ (EscPress /\ isLoading /\ escPressedOnce)
        => /\ bridgeRef # NoProc => bridgeRef \in killed'
           /\ bridgeRef' = NoProc
           /\ bridgeRestartCounter' = bridgeRestartCounter + 1
           /\ Len(committedItems') = Len(committedItems) + 1
           /\ IsPrefix(committedItems, committedItems')
           /\ committedItems'[Len(committedItems')].content.text
                 = "Run Interrupted" ]_vars

\* C6 (amended): the second ESC while busy and armed kills the worker and
\* increments bridgeRestartCounter by one; when an agent is active it
\* appends exactly one "Run Interrupted" entry tagged with the first active
\* agent, and when no agent is active it leaves the log as it is.
C6_ConfirmedInterrupt ==
    [][ (EscPress /\ isLoading /\ escPressedOnce)
        => /\ bridgeRef # NoProc => bridgeRef \in killed'
           /\ bridgeRef' = NoProc
           /\ bridgeRestartCounter' = bridgeRestartCounter + 1
           /\ LET active == { i \in DOMAIN agents : agents[i].status = "active" }
                  first == CHOOSE i \in active : \A j \in active : i <= j
                  n == Len(committedItems')
              IN  IF active = {} THEN committedItems' = committedItems
                  ELSE /\ n = Len(committedItems) + 1
                       /\ IsPrefix(committedItems, committedItems')
                       /\ committedItems'[n].type = "log"
                       /\ committedItems'[n].content.text = "Run Interrupted"
                       /\ committedItems'[n].agentName = agents[first].name
       ]_vars

C6_Witness ==
    /\ lastStep = "esc-confirm"
    /\ bridgeRestartCounter = 1
    /\ 0 \in killed
    /\ Len(committedItems) > 0
    /\ committedItems[Len(committedItems)].id.k = "interrupt"
    /\ committedItems[Len(committedItems)].agentName = "evaluator"

\* C7: a first ESC while busy arms the warning and its 3 s timer and leaves
\* the log, the worker, the restart counter, the busy flag and the
\* checkpoint mode as they are; a shown warning always has its timer
\* pending, and the timer, when due, clears the warning; an ESC after that
\* arms again.
C7_SingleEscOnlyArms ==
    [][ /\ (EscPress /\ isLoading /\ ~escPressedOnce)
           => /\ escPressedOnce' /\ showInterruptWarning'
              /\ escTimeoutRef' = EscWindow
              /\ UNCHANGED << committedItems, bridgeRef, spawned, killed, sent,
                              bridgeRestartCounter, bridgeEffectPending,
                              isLoading, checkpointMode >>
        /\ showInterruptWarning' => escTimeoutRef' \in 0..EscWindow
        /\ (escTimeoutRef = 0 /\ lastStep' = "esc-expire")
           => ~escPressedOnce' /\ ~showInterruptWarning'
        /\ (escTimeoutRef' < escTimeoutRef /\ escTimeoutRef' >= 0)
           => now' - now = escTimeoutRef - escTimeoutRef'
      ]_vars

\* the warning was armed again after its window had expired
C7_Witness ==
    /\ lastStep = "esc-arm"
    /\ now >= EscWindow
    /\ escTimeoutRef = EscWindow
    /\ showInterruptWarning
    /\ bridgeRestartCounter = 0

\* C8: Ctrl+C / Ctrl+D while busy changes nothing and does not exit; while
\* idle the first press only arms the 3 s window, and the application exits
\* only on a press made while idle with the window of an earlier press
\* still open.
C8_ExitOnlyWhileIdle ==
    [][ /\ (ExitPress /\ isLoading) => UNCHANGED sessionVars
        /\ (ExitPress /\ ~isLoading /\ ~exitPressedOnce)
           => /\ ~exited'
              /\ exitPressedOnce' /\ exitTimeoutRef' = ExitWindow
        /\ (ExitPress /\ exited')
           => /\ ~isLoading
              /\ exitPressedOnce
              /\ exitTimeoutRef \in 0..ExitWindow
        /\ exitPressedOnce' => exitTimeoutRef' \in 0..ExitWindow
        /\ (exitTimeoutRef' < exitTimeoutRef /\ exitTimeoutRef' >= 0)
           => now' - now = exitTimeoutRef - exitTimeoutRef'
      ]_vars

C8_Witness ==
    /\ exited
    /\ lastStep = "exit-confirm"
    /\ bridgeRef # NoProc
    /\ isSystemReady

\* C9: but for the fresh-start reset, every step leaves the log an
\* extension of what it was, so no appended item is lost; the items a
\* resize puts aside for 50 ms are counted as still in the log.
C9_AppendOnly ==
    [][ FreshStartStep \/ IsPrefix(FullLog, FullLog') ]_vars

\* C10: a dispatched message whose handler threw has left the session
\* state as it was (a message is applied in full or not at all).
C10_AtomicDispatch ==
    [][ (nMsgs' = nMsgs + 1 /\ lastStep' = "threw")
        => UNCHANGED sessionVars ]_vars

\* the lines from..to of the worker that are JSON messages, in the order
\* the worker wrote them
WellFormed(lines, from, to) ==
    SelectSeq([i \in 1..Len(lines) |-> i],
              LAMBDA i : i >= from /\ i <= to /\ lines[i].json)

\* the lines whose text lies whole in the first n bytes of the pipe
WholeIn(bytes, n) ==
    { i \in 1..Len(emitted) :
        \E j \in 1..(n - 1) : /\ bytes[j] = Token(i, 1)
                              /\ bytes[j + 1] = Token(i, 2) }

\* C11: once the whole output of the worker has been read, the lines
\* handleBridgeMessage was called with are the well-formed lines the worker
\* wrote, each once and in the order of emission, whatever the chunks were.
C11_EveryLineOnceInOrder ==
    pipe = << >> => dispatched = WellFormed(emitted, 1, Len(emitted))

\* C12: a 'data' event dispatches the well-formed lines whose text it
\* delivers whole, in order, whatever lines that do not parse stand before
\* them or between them; it never ends the session; and an event that
\* delivers no well-formed line leaves the session state as it was.
C12_UnparseableLineDropped ==
    [][ pipe' # pipe =>
          LET n == Len(pipe) - Len(pipe')
              whole == WholeIn(pipe, n)
          IN  /\ dispatched' =
                     dispatched \o SelectSeq(WellFormed(emitted, 1,
                                                        Len(emitted)),
                                             LAMBDA i : i \in whole)
              /\ exited' = exited
              /\ (\A i \in whole : ~emitted[i].json)
                     => UNCHANGED sessionVars ]_vars

\* a line that is not JSON stood between two messages, and both were
\* dispatched
C12_Witness ==
    /\ Len(emitted) = 3
    /\ emitted[1].json /\ ~emitted[2].json /\ emitted[3].json
    /\ pipe = << >>
    /\ dispatched = << 1, 3 >>
    /\ ~exited

\* the history of the checkpoint_info that was dispatched first
FirstHistory == emitted[dispatched[1]].msg.payload.history

\* the log is what one reconstruction made of an empty log
Rebuilt ==
    /\ Len(dispatched) = 1
    /\ emitted[dispatched[1]].msg.type = "checkpoint_info"

\* where the items of task n stand in the log
TaskIndices(items, n) == { p \in 1..Len(items) : items[p].id.n = n }

Contiguous(S) == \A p \in S, q \in S : \A r \in p..q : r \in S

\* the items of task n, as one block
Block(items, n) ==
    LET S == TaskIndices(items, n)
    IN  IF S = {} THEN << >>
        ELSE SubSeq(items, CHOOSE p \in S : \A q \in S : p <= q,
                    CHOOSE p \in S : \A q \in S : p >= q)

IsRecorded(it, rec, agentName) ==
    /\ it.type = rec.type
    /\ it.content.text = rec.content
    /\ it.agentName = agentName

\* C13: after a reconstruction from a history with k completed tasks and a
\* plan of k + 1 entries or more, the items of each completed task i < k
\* stand together, the blocks stand in increasing i, and block i reads:
\* operator header, task box, the operator items recorded for i in order
\* with their error flags, evaluator header, the evaluator items recorded
\* for i in order, the recorded summary if there is one, and the status
\* "Evaluation Passed".
C13_CompletedTaskBlocks ==
    (Rebuilt /\ Len(FirstHistory.plan) >= FirstHistory.completed + 1) =>
        LET h == FirstHistory
            k == h.completed
        IN  /\ \A i \in 0..(k - 1) :
                 LET t == i + 1
                     B == Block(committedItems, t)
                     ops == ItemsOfTask(h.operator_items_by_task, i)
                     evs == ItemsOfTask(h.evaluator_items_by_task, i)
                     summary == ResultOfTask(h, i)
                     no == Len(ops)
                     ne == Len(evs)
                     ns == IF summary # "" THEN 1 ELSE 0
                 IN  /\ Contiguous(TaskIndices(committedItems, t))
                     /\ Len(B) = 2 + no + 1 + ne + ns + 1
                     /\ B[1].type = "agent-header"
                     /\ B[1].agentName = "operator"
                     /\ B[2].type = "active-task-panel"
                     /\ B[2].content.n = t
                     /\ B[2].content.text = cleanTaskDescription(h.plan[t])
                     /\ \A j \in 1..no :
                            /\ IsRecorded(B[2 + j], ops[j], "operator")
                            /\ B[2 + j].isError = ops[j].isError
                     /\ B[3 + no].type = "evaluator-header"
                     /\ B[3 + no].agentName = "evaluator"
                     /\ \A j \in 1..ne :
                            IsRecorded(B[3 + no + j], evs[j], "evaluator")
                     /\ ns = 1 =>
                            /\ B[Len(B) - 1].type = "evaluation-summary"
                            /\ B[Len(B) - 1].content.text = summary
                     /\ B[Len(B)].type = "evaluator-status"
                     /\ B[Len(B)].content.text = "Evaluation Passed"
            /\ \A i \in 0..(k - 1), j \in 0..(k - 1) :
                 i < j => \A p \in TaskIndices(committedItems, i + 1),
                             q \in TaskIndices(committedItems, j + 1) : p < q

\* two completed tasks were rebuilt, the first with two operator items, one
\* of them in error, and a summary
C13_Witness ==
    /\ Rebuilt
    /\ FirstHistory.completed = 2
    /\ Len(FirstHistory.plan) >= 3
    /\ Len(ItemsOfTask(FirstHistory.operator_items_by_task, 0)) = 2
    /\ Len(ItemsOfTask(FirstHistory.evaluator_items_by_task, 0)) = 1
    /\ ResultOfTask(FirstHistory, 0) # ""
    /\ ResultOfTask(FirstHistory, 1) = ""
    /\ Len(Block(committedItems, 1)) = 8

\* content of the planning role in the log
PlanningContent(items) ==
    \E p \in 1..Len(items) : items[p].agentName = "strategist"

\* the history holds a plan, as a list or as a text
HasPlanContent(h) == Len(h.plan) > 0 \/ h.full_plan_text # ""

\* the step dispatches one line, a checkpoint_info
OneCheckpoint ==
    /\ Len(dispatched') = Len(dispatched) + 1
    /\ emitted[dispatched'[Len(dispatched')]].msg.type = "checkpoint_info"

\* a checkpoint_info was dispatched first
RebuiltBefore ==
    /\ dispatched # << >>
    /\ emitted[dispatched[1]].msg.type = "checkpoint_info"

\* C14 as stated: handling checkpoint_info on a log that a first
\* reconstruction populated, or that holds content of the planning role,
\* leaves the log as it was, for every history.
C14_Idempotent ==
    [][ (OneCheckpoint /\ (PlanningContent(committedItems) \/ RebuiltBefore))
        => committedItems' = committedItems ]_vars

\* C14, amended: handling checkpoint_info leaves the log as it was when the
\* log holds content of the planning role, which a first reconstruction put
\* there if its history held a plan.
C14_IdempotentWithPlan ==
    [][ (OneCheckpoint
         /\ \/ PlanningContent(committedItems)
            \/ (RebuiltBefore /\ HasPlanContent(FirstHistory)))
        => committedItems' = committedItems ]_vars

\* the same history with a plan and a completed task was handled twice
C14_Witness ==
    /\ Len(dispatched) = 2
    /\ emitted[1].msg.type = "checkpoint_info"
    /\ emitted[2].msg.type = "checkpoint_info"
    /\ HasPlanContent(FirstHistory)
    /\ FirstHistory.completed >= 1
    /\ PlanningContent(committedItems)

\* the block of the in-progress task after one reconstruction; box tells
\* whether a task box belongs to it
InProgressBlock(box) ==
    LET h == FirstHistory
        t == h.completed + 1
        B == Block(committedItems, t)
        ops == ItemsOfTask(h.operator_items_by_task, h.completed)
        evs == ItemsOfTask(h.evaluator_items_by_task, h.completed)
        no == Len(ops)
        ne == Len(evs)
        nb == IF box THEN 1 ELSE 0
    IN  IF no = 0
        THEN B = << >>
        ELSE /\ Contiguous(TaskIndices(committedItems, t))
             /\ \A p \in TaskIndices(committedItems, t) :
                    \A q \in 1..Len(committedItems) :
                        committedItems[q].id.n # t => q < p
             /\ Len(B) = 1 + nb + no + (IF ne > 0 THEN 1 + ne ELSE 0)
             /\ B[1].type = "agent-header"
             /\ B[1].agentName = "operator"
             /\ box => /\ B[2].type = "active-task-panel"
                       /\ B[2].content.n = t
                       /\ B[2].content.text = cleanTaskDescription(h.plan[t])
             /\ \A j \in 1..no :
                    /\ IsRecorded(B[1 + nb + j], ops[j], "operator")
                    /\ B[1 + nb + j].isError = ops[j].isError
             /\ ne > 0 =>
                    /\ B[2 + nb + no].type = "evaluator-header"
                    /\ B[2 + nb + no].agentName = "evaluator"
                    /\ \A j \in 1..ne :
                           /\ IsRecorded(B[2 + nb + no + j], evs[j],
                                         "evaluator")
                           /\ B[2 + nb + no + j].isError = evs[j].isError
             /\ \A p \in 1..Len(B) : B[p].type # "evaluator-status"

\* C16 as stated: the in-progress task has items in the log only if
\* operator items were recorded for it, and then operator header, task box,
\* those items in order, and the evaluator header with the recorded
\* evaluator items exactly if evaluator items were recorded; no "Evaluation
\* Passed" status among them.
C16_InProgressBlock == Rebuilt => InProgressBlock(TRUE)

\* C16, amended: the same, with the task box exactly when the plan of the
\* history has an entry for the task.
C16_InProgressBlockBoxIfPlanned ==
    Rebuilt =>
        InProgressBlock(Len(FirstHistory.plan) >= FirstHistory.completed + 1)

\* the second task was in progress, with operator items and evaluator items
\* recorded, and the plan has an entry for it
C16_Witness ==
    /\ Rebuilt
    /\ FirstHistory.completed = 1
    /\ Len(FirstHistory.plan) >= 2
    /\ Len(ItemsOfTask(FirstHistory.operator_items_by_task, 1)) = 2
    /\ Len(ItemsOfTask(FirstHistory.evaluator_items_by_task, 1)) = 1
    /\ Len(Block(committedItems, 2)) = 6

(***************************************************************************)
(* The live run a history stands for: for each item the reconstruction     *)
(* emits, the event that makes the dispatcher append an item of that type  *)
(* (messageHandlers.ts:154-218), in the order of the history, each task    *)
(* announced by task_progress, the plan known to ensureHeader.             *)
(***************************************************************************)
\* a tool item comes from step_complete, a log item from log
EventOf(rec, agent) ==
    Msg("agent_event",
        AgentPayload(agent,
                     IF rec.type = "tool" THEN "step_complete" ELSE "log",
                     rec.content, rec.isError = "true", ""))

EventsOf(recs, agent) == [j \in 1..Len(recs) |-> EventOf(recs[j], agent)]

\* the plan box comes from the strategist's "Reviewed Plan" step, the
\* status from its complete event
PlanEvents(h) ==
    IF HasPlanContent(h)
    THEN << Msg("agent_event",
                AgentPayload("strategist", "step_complete", "Reviewed Plan",
                             FALSE, "1. relax 2. bands")),
            Msg("agent_event",
                AgentPayload("strategist", "complete",
                             "Created Execution Plan", FALSE, "")) >>
    ELSE << >>

TaskEvents(h, i) ==
    LET ops == ItemsOfTask(h.operator_items_by_task, i)
        evs == ItemsOfTask(h.evaluator_items_by_task, i)
        summary == ResultOfTask(h, i)
        done == i < h.completed
    IN  IF ~done /\ ops = << >>
        THEN << >>
        ELSE << Msg("task_progress",
                    [present |-> TRUE, current |-> i + 1,
                     total |-> h.total_tasks]) >>
             \o (IF ops = << >>
                 THEN << Msg("agent_event",
                             AgentPayload("operator", "start", "Working",
                                          FALSE, "")) >>
                 ELSE EventsOf(ops, "operator"))
             \o (IF evs = << >> /\ done
                 THEN << Msg("agent_event",
                             AgentPayload("evaluator", "start",
                                          "Evaluating output", FALSE, "")) >>
                 ELSE EventsOf(evs, "evaluator"))
             \o (IF done /\ summary # ""
                 THEN << Msg("agent_event",
                             AgentPayload("evaluator", "log", summary,
                                          FALSE, "")) >>
                 ELSE << >>)
             \o (IF done
                 THEN << Msg("agent_event",
                             AgentPayload("evaluator", "complete",
                                          "Evaluation Passed", FALSE, "")) >>
                 ELSE << >>)

RECURSIVE LiveEvents(_, _)
LiveEvents(h, i) ==
    IF i > h.completed THEN << >>
    ELSE TaskEvents(h, i) \o LiveEvents(h, i + 1)

RECURSIVE Replay(_, _)
Replay(s, events) ==
    IF events = << >> THEN s
    ELSE Replay(handleBridgeMessage(s, Head(events)), Tail(events))

\* the log of the live run of history h
LiveLog(h) ==
    LET planned == Replay([State EXCEPT !.committedItems = << >>,
                                        !.taskProgressRef = NullProgress],
                          PlanEvents(h))
    IN  Replay([planned EXCEPT !.parsedPlan = h.plan,
                               !.parsedPlanRef = h.plan],
               LiveEvents(h, 0)).committedItems

\* type, agent tag and content of each item; the text of a plan box is
\* taken to be the same in both
Shown(items) ==
    [p \in 1..Len(items) |->
        [type |-> items[p].type, agentName |-> items[p].agentName,
         text |-> IF items[p].type = "plan" THEN "plan"
                  ELSE items[p].content.text,
         n |-> items[p].content.n]]

\* C15: the log after one reconstruction from a history shows the same
\* items, by type, agent tag and content and in the same order, as the log
\* of the live run the history stands for.
C15_SameAsLive ==
    Rebuilt => Shown(committedItems) = Shown(LiveLog(FirstHistory))

\* the lines a step dispatched
NewLines == SubSeq(dispatched', Len(dispatched) + 1, Len(dispatched'))

IsCheckpoint(i) == emitted[i].msg.type = "checkpoint_info"

\* { command: 'prompt', content: '', restart: true }
ResumeCommand == Command("prompt", "", "true")

\* C17: a step that dispatches checkpoint_info last leaves the mode as the
\* auto-restart flag and the payload's 'exists' resolve it: auto-resume and
\* busy, error, prompt, or normal.  It writes nothing to the worker itself;
\* with the flag set and a checkpoint it arms one timer per such message,
\* and what is ever written in this session is one empty resume command
\* (prompt, empty content, restart) per timer.
C17_ModeResolution ==
    [][ /\ dispatched' # dispatched =>
              LET last == dispatched'[Len(dispatched')]
                  payload == emitted[last].msg.payload
                  resumes ==
                      Len(SelectSeq(NewLines,
                                    LAMBDA i : /\ IsCheckpoint(i)
                                               /\ emitted[i].msg.payload.exists))
              IN  /\ sent' = sent
                  /\ resumeTimers' =
                         resumeTimers + (IF restartFromEnv THEN resumes ELSE 0)
                  /\ IsCheckpoint(last) =>
                         /\ (restartFromEnv /\ payload.exists) =>
                                checkpointMode' = "auto-resume" /\ isLoading'
                         /\ (restartFromEnv /\ ~payload.exists) =>
                                checkpointMode' = "error"
                         /\ (~restartFromEnv /\ payload.exists) =>
                                checkpointMode' = "prompt"
                         /\ (~restartFromEnv /\ ~payload.exists) =>
                                checkpointMode' = "normal"
        /\ sent' # sent =>
              /\ restartFromEnv
              /\ resumeTimers' = resumeTimers - 1
              /\ sent' = Append(sent, [cmd |-> ResumeCommand,
                                       to |-> bridgeRef]) ]_vars

\* the flag is set, a checkpoint exists, and the one resume command was
\* written
C17_Witness ==
    /\ restartFromEnv
    /\ checkpointMode = "auto-resume"
    /\ isLoading
    /\ resumeTimers = 0
    /\ sent = << [cmd |-> ResumeCommand, to |-> 0] >>

\* line i is the step_complete milestone of the planning role
IsMilestone(i) ==
    /\ emitted[i].msg.type = "agent_event"
    /\ emitted[i].msg.payload.agent = "strategist"
    /\ emitted[i].msg.payload.event = "step_complete"
    /\ emitted[i].msg.payload.status \in {"Reviewed Plan", "Created Replan"}

HasPlanBox(items) == \E p \in 1..Len(items) : items[p].type = "plan"

\* every plan box of a live run is directly followed by the milestone's item
PlanBoxFollowed(items) ==
    \A p \in 1..Len(items) :
        items[p].id = FixedId("execution-plan-complete") =>
            /\ p < Len(items)
            /\ items[p + 1].type = "tool"
            /\ items[p + 1].agentName = "strategist"
            /\ items[p + 1].content.text \in {"Reviewed Plan", "Created Replan"}

\* the step dispatched the milestone, and its plan box and its item are the
\* last two items of the log
PlanBoxInserted(payload) ==
    LET n == Len(committedItems') IN
    /\ n >= Len(committedItems) + 2
    /\ committedItems'[n - 1].type = "plan"
    /\ committedItems'[n - 1].content.text = payload.output
    /\ committedItems'[n].type = "tool"
    /\ committedItems'[n].content.text = payload.status
    /\ IsPrefix(committedItems, committedItems')

IsOperatorEvent(i) ==
    /\ emitted[i].msg.type = "agent_event"
    /\ emitted[i].msg.payload.agent = "operator"

HasItem(items, id) == \E p \in 1..Len(items) : items[p].id = id

\* C19: when a step ends with an operator event that newly inserts the
\* operator header of task n, and the plan received before that event
\* (by plan_stream or in a checkpoint history) has n entries or more, the
\* task box of task n, built from entry n of the plan, stands directly
\* after the header; and a task box of a live run stands nowhere but
\* directly after the header of its task.
C19_TaskBoxAfterNewHeader ==
    [][ dispatched' # dispatched =>
          /\ \A n \in 1..(MaxTask + 1) :
                (/\ IsOperatorEvent(dispatched'[Len(dispatched')])
                 /\ ~HasItem(committedItems, TaskHeaderId("operator", n, FALSE))
                 /\ HasItem(committedItems', TaskHeaderId("operator", n, FALSE))
                 /\ Len(parsedPlan') >= n)
                => \E p \in 1..(Len(committedItems') - 1) :
                      /\ committedItems'[p].id
                             = TaskHeaderId("operator", n, FALSE)
                      /\ committedItems'[p + 1].type = "active-task-panel"
                      /\ committedItems'[p + 1].content.n = n
                      /\ committedItems'[p + 1].content.text
                             = cleanTaskDescription(parsedPlan'[n])
          /\ \A p \in 1..Len(committedItems') :
                (/\ committedItems'[p].type = "active-task-panel"
                 /\ ~committedItems'[p].id.h)
                => /\ p > 1
                   /\ committedItems'[p - 1].id
                          = TaskHeaderId("operator",
                                         committedItems'[p].content.n, FALSE)
      ]_vars

\* C20: a worker is spawned by the bridge effect only, one per run of the
\* effect, and the effect runs once at the start (when the worker's script
\* was found) and once for each increment of bridgeRestartCounter; the
\* child's 'error' event appends a system message and neither spawns, nor
\* asks for a run of the effect, nor touches the restart counter, nor
\* writes to the worker.
C20_SpawnOnlyOnStartAndRestart ==
    [][ /\ spawned' # spawned =>
              /\ spawned' = spawned + 1
              /\ bridgeEffectPending /\ ~bridgeEffectPending'
              /\ bridgeRestartCounter' = bridgeRestartCounter
        /\ (bridgeEffectPending' /\ ~bridgeEffectPending) =>
              bridgeRestartCounter' = bridgeRestartCounter + 1
        /\ bridgeRestartCounter' # bridgeRestartCounter =>
              bridgeEffectPending'
        /\ (spawned' + (IF bridgeEffectPending' THEN 1 ELSE 0)
               = bridgeRestartCounter' + (IF spawned' > 0 THEN 1 ELSE 0))
        /\ lastStep' = "child-error" =>
              /\ messages' =
                     Append(messages,
                            [role |-> "system",
                             content |-> << "Bridge Error: spawn ENOENT" >>])
              /\ UNCHANGED << spawned, bridgeEffectPending,
                              bridgeRestartCounter, bridgeRef, killed, sent,
                              exited >> ]_vars

\* the worker was restarted once, the restarted worker failed, and no third
\* worker was spawned
C20_Witness ==
    /\ lastStep = "child-error"
    /\ bridgeRestartCounter = 1
    /\ spawned = 2
    /\ ~bridgeEffectPending
    /\ bridgeRef = 1

\* the worker processes that were spawned and not killed
Alive == { c \in 0..(spawned - 1) : c \notin killed }

\* C21: at most one worker process is alive, and an alive process is the one
\* the session holds in bridgeRef, which is the most recently spawned one;
\* when a new worker is spawned every earlier one has been killed; and a
\* command is written to the most recently spawned process, which is alive.
C21_OneWorkerAttached ==
    [][ /\ Cardinality(Alive') <= 1
        /\ \A c \in Alive' : c = bridgeRef' /\ c = spawned' - 1
        /\ spawned' # spawned => \A c \in 0..(spawned - 1) : c \in killed'
        /\ sent' # sent =>
              /\ Len(sent') = Len(sent) + 1
              /\ sent'[Len(sent')].to = spawned' - 1
              /\ sent'[Len(sent')].to \in Alive' ]_vars

\* the worker was restarted, the first process is dead, and a command was
\* written to the second
C21_Witness ==
    /\ spawned = 2
    /\ 0 \in killed
    /\ bridgeRef = 1
    /\ sent # << >>
    /\ sent[Len(sent)].to = 1

\* C22: the step that dispatches the worker's error message, in the
\* interactive session, appends to the committed log one entry flagged as an
\* error that carries the message text, clears the busy flag, and does not
\* end the session.
C22_ErrorEntryAppended ==
    [][ (nMsgs' = nMsgs + 1 /\ lastMsg' = "error" /\ lastStep' = "handled")
        => /\ Len(committedItems') = Len(committedItems) + 1
           /\ IsPrefix(committedItems, committedItems')
           /\ committedItems'[Len(committedItems')].isError = "true"
           /\ committedItems'[Len(committedItems')].content.text = "boom"
           /\ ~isLoading'
           /\ ~exited' ]_vars

\* C23: the agent registry never holds two records of one name; a handled
\* agent_event keeps the records of the registry in their places and either
\* changes one of them (the event's agent was known) or adds one record of
\* a name that was not in the registry.
C23_OneRecordPerAgent ==
    [][ /\ \A i, j \in 1..Len(agents') :
              i # j => agents'[i].name # agents'[j].name
        /\ (nMsgs' = nMsgs + 1 /\ lastMsg' = "agent_event"
            /\ lastStep' = "handled")
           => /\ Len(agents') \in {Len(agents), Len(agents) + 1}
              /\ \A i \in 1..Len(agents) : agents'[i].name = agents[i].name
              /\ Len(agents') = Len(agents) =>
                    /\ Len(agents) > 0
                    /\ Cardinality({ i \in 1..Len(agents) :
                                       agents'[i] # agents[i] }) <= 1
              /\ Len(agents') = Len(agents) + 1 =>
                    /\ \A i \in 1..Len(agents) : agents'[i] = agents[i]
                    /\ \A i \in 1..Len(agents) :
                          agents[i].name # agents'[Len(agents')].name ]_vars

\* two events of the operator were handled, and the registry holds its one
\* record
C23_Witness ==
    /\ Len(agents) = 1
    /\ agents[1].name = "operator"
    /\ nMsgs = 2
    /\ lastMsg = "agent_event"
    /\ lastStep = "handled"
    /\ \E p \in 1..Len(committedItems) :
           committedItems[p].type = "tool"
           /\ committedItems[p].agentName = "operator"
    /\ \E p \in 1..Len(committedItems) :
           committedItems[p].type = "log"
           /\ committedItems[p].agentName = "operator"

\* C24: in every reachable state the task progress the handlers read
\* (taskProgressRef) is the task progress of the state (taskProgress).
C24_RefFollowsTaskProgress == taskProgressRef = taskProgress

\* C25: when fresh_start_complete is dispatched after the user's "no" (the
\* last command written is fresh_start), the checkpoint mode is 'normal'
\* from then on, so that the next input goes to the worker as a prompt.
C25_NormalModeAfterNo ==
    [][ (/\ nMsgs' = nMsgs + 1
         /\ lastMsg' = "fresh_start_complete"
         /\ lastStep' = "handled"
         /\ sent # << >>
         /\ sent[Len(sent)].cmd.command = "fresh_start")
        => checkpointMode' = "normal" ]_vars

(***************************************************************************)
(* Layout of text: utils/formatting.ts and the text processing utilities.  *)
(* A string is the sequence of its characters; a character outside ASCII   *)
(* is written by its code point, as in "U+2800"; the backquote is "U+0060". *)
(***************************************************************************)
\* \s, \d and \w of a regular expression
Space == {" ", "\t"}
Digit == {"0", "1", "2", "3", "4", "5", "6", "7", "8", "9"}
Letter ==
    {"a", "b", "c", "d", "e", "f", "g", "h", "i", "j", "k", "l", "m", "n",
     "o", "p", "q", "r", "s", "t", "u", "v", "w", "x", "y", "z",
     "A", "B", "C", "D", "E", "F", "G", "H", "I", "J", "K", "L", "M", "N",
     "O", "P", "Q", "R", "S", "T", "U", "V", "W", "X", "Y", "Z"}
Word == Letter \cup Digit \cup {"_"}

\* c is matched by the class [C], or by [^C] when neg
InClass(c, C, neg) == (c \in C) # neg

\* the least and the greatest member of a non-empty set of numbers
Least(S) == CHOOSE m \in S : \A n \in S : m <= n

Greatest(S) == CHOOSE m \in S : \A n \in S : m >= n

\* the length of the longest run of the class at position i
Span(s, i, C, neg) ==
    LET stops == {j \in i..Len(s) : ~InClass(s[j], C, neg)}
    IN  IF i > Len(s) THEN 0
        ELSE IF stops = {} THEN Len(s) - i + 1
        ELSE Least(stops) - i

\* the length of the run of the class that ends at position i
SpanBack(s, i, C) ==
    LET stops == {j \in 1..i : s[j] \notin C}
    IN  IF stops = {} THEN i ELSE i - Greatest(stops)

\* p occurs in s at position i
At(s, i, p) ==
    /\ i >= 1
    /\ i + Len(p) - 1 <= Len(s)
    /\ SubSeq(s, i, i + Len(p) - 1) = p

StartsWith(s, p) == At(s, 1, p)

EndsWith(s, p) == At(s, Len(s) - Len(p) + 1, p)

Trim(s) ==
    LET a == Span(s, 1, Space, FALSE)
    IN  IF a = Len(s) THEN << >>
        ELSE SubSeq(s, a + 1, Len(s) - SpanBack(s, Len(s), Space))

\* the length of what p, present or not, takes at position i
Opt(s, i, p) == IF At(s, i, p) THEN Len(p) ELSE 0

\* -?\d+ at position i: the length of the match, 0 when there is none
NumLen(s, i) ==
    LET m == Opt(s, i, << "-" >>)
        d == Span(s, i + m, Digit, FALSE)
    IN  IF d > 0 THEN m + d ELSE 0

\* open, then [^}]* (at least min characters), then a closing brace
BraceLen(s, i, open, min) ==
    LET k == Span(s, i + Len(open), {"}"}, TRUE)
    IN  IF At(s, i, open) /\ k >= min /\ i + Len(open) + k <= Len(s)
        THEN Len(open) + k + 1 ELSE 0

SUPERSCRIPT_MAP ==
    [d \in Digit \cup {"-"} |->
        CASE d = "0" -> "U+2070" [] d = "1" -> "U+00B9" [] d = "2" -> "U+00B2"
          [] d = "3" -> "U+00B3" [] d = "4" -> "U+2074" [] d = "5" -> "U+2075"
          [] d = "6" -> "U+2076" [] d = "7" -> "U+2077" [] d = "8" -> "U+2078"
          [] d = "9" -> "U+2079" [] d = "-" -> "U+207B"]

SUBSCRIPT_MAP ==
    [d \in Digit \cup {"-"} |->
        CASE d = "0" -> "U+2080" [] d = "1" -> "U+2081" [] d = "2" -> "U+2082"
          [] d = "3" -> "U+2083" [] d = "4" -> "U+2084" [] d = "5" -> "U+2085"
          [] d = "6" -> "U+2086" [] d = "7" -> "U+2087" [] d = "8" -> "U+2088"
          [] d = "9" -> "U+2089" [] d = "-" -> "U+208B"]

Macro(latex, unicode) == [latex |-> latex, unicode |-> unicode]

\* the entries in the order Object.entries yields them
SYMBOL_MAP ==
    << Macro(<< "\\", "t", "i", "m", "e", "s" >>, "U+00D7"),
       Macro(<< "\\", "a", "p", "p", "r", "o", "x" >>, "U+2248"),
       Macro(<< "\\", "l", "e" >>, "U+2264"),
       Macro(<< "\\", "g", "e" >>, "U+2265"),
       Macro(<< "\\", "p", "m" >>, "U+00B1"),
       Macro(<< "\\", "r", "i", "g", "h", "t", "a", "r", "r", "o", "w" >>, "U+2192"),
       Macro(<< "\\", "l", "e", "f", "t", "a", "r", "r", "o", "w" >>, "U+2190"),
       Macro(<< "\\", "t", "o" >>, "U+2192"),
       Macro(<< "\\", "s", "i", "m" >>, "U+223C"),
       Macro(<< "\\", "A", "A" >>, "U+00C5"),
       Macro(<< "\\", "a", "l", "p", "h", "a" >>, "U+03B1"),
       Macro(<< "\\", "b", "e", "t", "a" >>, "U+03B2"),
       Macro(<< "\\", "g", "a", "m", "m", "a" >>, "U+03B3"),
       Macro(<< "\\", "d", "e", "l", "t", "a" >>, "U+03B4"),
       Macro(<< "\\", "t", "h", "e", "t", "a" >>, "U+03B8"),
       Macro(<< "\\", "m", "u" >>, "U+03BC"),
       Macro(<< "\\", "p", "i" >>, "U+03C0"),
       Macro(<< "\\", "r", "h", "o" >>, "U+03C1"),
       Macro(<< "\\", "s", "i", "g", "m", "a" >>, "U+03C3"),
       Macro(<< "\\", "o", "m", "e", "g", "a" >>, "U+03C9"),
       Macro(<< "\\", "G", "a", "m", "m", "a" >>, "U+0393"),
       Macro(<< "\\", "D", "e", "l", "t", "a" >>, "U+0394"),
       Macro(<< "\\", "T", "h", "e", "t", "a" >>, "U+0398"),
       Macro(<< "\\", "L", "a", "m", "b", "d", "a" >>, "U+039B"),
       Macro(<< "\\", "S", "i", "g", "m", "a" >>, "U+03A3"),
       Macro(<< "\\", "P", "h", "i" >>, "U+03A6"),
       Macro(<< "\\", "P", "s", "i" >>, "U+03A8"),
       Macro(<< "\\", "O", "m", "e", "g", "a" >>, "U+03A9"),
       Macro(<< "\\", "e", "p", "s", "i", "l", "o", "n" >>, "U+03B5"),
       Macro(<< "\\", "v", "a", "r", "e", "p", "s", "i", "l", "o", "n" >>, "U+03B5"),
       Macro(<< "\\", "l", "a", "m", "b", "d", "a" >>, "U+03BB"),
       Macro(<< "\\", "n", "u" >>, "U+03BD"),
       Macro(<< "\\", "e", "t", "a" >>, "U+03B7"),
       Macro(<< "\\", "t", "a", "u" >>, "U+03C4"),
       Macro(<< "\\", "p", "h", "i" >>, "U+03D5"),
       Macro(<< "\\", "p", "s", "i" >>, "U+03C8"),
       Macro(<< "\\", "n", "a", "b", "l", "a" >>, "U+2207"),
       Macro(<< "\\", "p", "a", "r", "t", "i", "a", "l" >>, "U+2202"),
       Macro(<< "\\", "c", "d", "o", "t" >>, "U+00B7"),
       Macro(<< "\\", "h", "b", "a", "r" >>, "U+0127"),
       Macro(<< "\\", "i", "n", "f", "t", "y" >>, "U+221E"),
       Macro(<< "\\", "O", "h", "m" >>, "U+03A9") >>

\* a regular expression of applyLatexTransformations, and what replaces it
Pattern(kind, lit, by) == [kind |-> kind, lit |-> lit, by |-> by]

Lit(lit, by) == Pattern("lit", lit, by)

\* the length of the match of p that starts at position i, 0 for none
MatchLen(p, s, i) ==
    CASE p.kind = "lit" -> Opt(s, i, p.lit)
      [] p.kind = "text" -> BraceLen(s, i, << "\\", "t", "e", "x", "t", "{" >>, 0)
      [] p.kind = "bar" -> BraceLen(s, i, << "\\", "b", "a", "r", "{" >>, 0)
      [] p.kind = "braced number" ->
            LET n == NumLen(s, i + 2)
            IN  IF At(s, i, p.lit) /\ n > 0 /\ At(s, i + 2 + n, << "}" >>)
                THEN n + 3 ELSE 0
      [] p.kind = "number" ->
            LET n == NumLen(s, i + 1)
            IN  IF At(s, i, p.lit) /\ n > 0 THEN n + 1 ELSE 0
      [] p.kind = "E text cut" ->
            LET b == Opt(s, i + 3, << "\\" >>)
            IN  IF At(s, i, << "E", "_", "{" >>) /\ At(s, i + 3 + b, << "t", "e", "x", "t", "{", "c", "u", "t", "}", "}" >>)
                THEN b + 13 ELSE 0
      [] p.kind = "E braced" -> BraceLen(s, i, << "E", "_", "{" >>, 1)
      [] p.kind = "word braced" ->
            LET n == BraceLen(s, i + 1, << "_", "{" >>, 1)
            IN  IF i <= Len(s) /\ s[i] \in Word /\ n > 0 THEN n + 1 ELSE 0
      [] p.kind = "power of ten" ->
            LET a == Opt(s, i + 2, << "^" >>)
                b == Opt(s, i + 2 + a, << "{" >>)
                c == Opt(s, i + 2 + a + b + Len(p.lit), << "}" >>)
            IN  IF At(s, i, << "1", "0" >>) /\ At(s, i + 2 + a + b, p.lit)
                THEN 2 + a + b + Len(p.lit) + c ELSE 0
      [] p.kind = "unit" ->
            IF i <= Len(s) /\ s[i] \in Digit /\ At(s, i + 1, p.lit)
            THEN 1 + Len(p.lit) ELSE 0

\* what replaces the match of p of length n at position i
Subst(p, s, i, n) ==
    CASE p.kind \in {"lit", "power of ten"} -> p.by
      [] p.kind = "text" ->
            (IF i > 1 /\ s[i - 1] \notin Space THEN << " " >> ELSE << >>)
                \o SubSeq(s, i + 6, i + n - 2)
      [] p.kind = "bar" ->
            LET content == SubSeq(s, i + 5, i + n - 2)
            IN  [k \in 1..(2 * Len(content)) |->
                    IF k % 2 = 1 THEN content[(k + 1) \div 2] ELSE "U+0304"]
      [] p.kind = "braced number" ->
            [k \in 1..(n - 3) |->
                IF s[i + 1 + k] \in DOMAIN p.by THEN p.by[s[i + 1 + k]]
                ELSE s[i + 1 + k]]
      [] p.kind = "number" ->
            [k \in 1..(n - 1) |->
                IF s[i + k] \in DOMAIN p.by THEN p.by[s[i + k]]
                ELSE s[i + k]]
      [] p.kind = "E text cut" -> << "E", "c", "u", "t" >>
      [] p.kind = "E braced" -> << "E" >> \o SubSeq(s, i + 3, i + n - 2)
      [] p.kind = "word braced" -> << s[i] >> \o SubSeq(s, i + 3, i + n - 2)
      [] p.kind = "unit" -> << s[i], " " >> \o p.lit

\* the leftmost match of p at or after position i: where it is and how long
Hit(at, len) == [at |-> at, len |-> len]

LeftmostOf(p, s, hits) ==
    IF hits = {} THEN Hit(0, 0)
    ELSE Hit(Least(hits), MatchLen(p, s, Least(hits)))

Leftmost(p, s, i) ==
    LeftmostOf(p, s, {j \in i..Len(s) : MatchLen(p, s, j) > 0})

\* String.prototype.replace with a global regular expression: the matches
\* are looked for from left to right, each after the end of the one before
RECURSIVE ReplaceFrom(_, _, _)
ReplaceHit(p, s, i, hit) ==
    IF hit.len = 0 THEN SubSeq(s, i, Len(s))
    ELSE SubSeq(s, i, hit.at - 1) \o Subst(p, s, hit.at, hit.len)
             \o ReplaceFrom(p, s, hit.at + hit.len)

ReplaceFrom(p, s, i) == ReplaceHit(p, s, i, Leftmost(p, s, i))

ReplaceAll(p, s) == ReplaceFrom(p, s, 1)

\* the loop over the entries of SYMBOL_MAP, from entry k on
RECURSIVE ReplaceSymbols(_, _)
SymbolReplaced(result, replaced, k) ==
    IF replaced = result THEN ReplaceSymbols(result, k + 1)
    ELSE ReplaceSymbols(replaced, k + 1)

ReplaceSymbols(result, k) ==
    IF k > Len(SYMBOL_MAP) THEN result
    ELSE SymbolReplaced(
             result,
             ReplaceAll(Lit(SYMBOL_MAP[k].latex, << SYMBOL_MAP[k].unicode >>),
                        result),
             k)

\* the replacements in the order the function makes them
LatexSteps ==
    << Lit(<< "$" >>, << >>),
       Pattern("text", << >>, << >>),
       Pattern("bar", << >>, << >>),
       Pattern("braced number", << "^", "{" >>, SUPERSCRIPT_MAP),
       Pattern("number", << "^" >>, SUPERSCRIPT_MAP),
       Pattern("braced number", << "_", "{" >>, SUBSCRIPT_MAP),
       Pattern("number", << "_" >>, SUBSCRIPT_MAP),
       Pattern("symbols", << >>, << >>),
       Pattern("E text cut", << >>, << >>),
       Lit(<< "E", "_", "{", "c", "u", "t", "}" >>, << "E", "c", "u", "t" >>),
       Pattern("E braced", << >>, << >>),
       Pattern("word braced", << >>, << >>),
       Pattern("power of ten", << "-", "4" >>, << "1", "0", "U+207B", "U+2074" >>),
       Pattern("power of ten", << "-", "5" >>, << "1", "0", "U+207B", "U+2075" >>),
       Pattern("power of ten", << "-", "8" >>, << "1", "0", "U+207B", "U+2078" >>),
       Lit(<< "M", "o", "S", "2" >>, << "M", "o", "S", "U+2082" >>),
       Lit(<< "C", "O", "2" >>, << "C", "O", "U+2082" >>),
       Lit(<< "H", "2", "O" >>, << "H", "U+2082", "O" >>),
       Pattern("unit", << "U+00C5" >>, << >>),
       Pattern("unit", << "R", "y" >>, << >>),
       Pattern("unit", << "e", "V" >>, << >>),
       Pattern("unit", << "m", "e", "V" >>, << >>) >>

RECURSIVE LatexFrom(_, _)
LatexReplaced(result, replaced, k) ==
    IF replaced = result THEN LatexFrom(result, k + 1)
    ELSE LatexFrom(replaced, k + 1)

LatexFrom(result, k) ==
    IF k > Len(LatexSteps) THEN result
    ELSE LatexReplaced(result,
                       IF LatexSteps[k].kind = "symbols"
                       THEN ReplaceSymbols(result, 1)
                       ELSE ReplaceAll(LatexSteps[k], result),
                       k)

applyLatexTransformations(text) == LatexFrom(text, 1)

Segment(text, style) == [text |-> text, style |-> style]

\* line.slice(a, b)
Slice(line, a, b) == SubSeq(line, a + 1, b)

\* inline code (a backquote, [^backquote]+, a backquote) and paired bold
\* (**, [^*]+, **) at position i: the length of the match
MarkLen(style, s, i) ==
    IF style = "code"
    THEN LET k == Span(s, i + 1, {"U+0060"}, TRUE)
         IN  IF At(s, i, << "U+0060" >>) /\ k > 0 /\ At(s, i + 1 + k, << "U+0060" >>)
             THEN k + 2 ELSE 0
    ELSE LET k == Span(s, i + 2, {"*"}, TRUE)
         IN  IF At(s, i, << "*", "*" >>) /\ k > 0 /\ At(s, i + 2 + k, << "*", "*" >>)
             THEN k + 4 ELSE 0

Marker(start, end, style) == [start |-> start, end |-> end, style |-> style]

\* the matches of the global expression from position i on, as markers
RECURSIVE Marks(_, _, _)
MarksOf(style, s, hits) ==
    IF hits = {} THEN << >>
    ELSE << Marker(Least(hits) - 1,
                   Least(hits) - 1 + MarkLen(style, s, Least(hits)), style) >>
             \o Marks(style, s, Least(hits) + MarkLen(style, s, Least(hits)))

Marks(style, s, i) ==
    MarksOf(style, s, {j \in i..Len(s) : MarkLen(style, s, j) > 0})

\* the text of a marker without its marks
MarkedText(fullMatch, style) ==
    IF style = "code" THEN SubSeq(fullMatch, 2, Len(fullMatch) - 1)
    ELSE IF EndsWith(fullMatch, << "*", "*" >>)
    THEN IF MarkLen("bold", fullMatch, 1) > 0
         THEN SubSeq(fullMatch, 3, Len(fullMatch) - 2)
         ELSE fullMatch
    ELSE SubSeq(fullMatch, 3, Len(fullMatch))

\* the loop that builds the segments from the sorted markers
RECURSIVE BuildSegments(_, _, _, _, _)
BuildSegments(line, markers, k, lastIndex, segments) ==
    IF k > Len(markers)
    THEN segments \o (IF lastIndex < Len(line)
                      THEN << Segment(Slice(line, lastIndex, Len(line)),
                                      "normal") >>
                      ELSE << >>)
    ELSE BuildSegments(
             line, markers, k + 1, markers[k].end,
             segments
                 \o (IF markers[k].start > lastIndex
                     THEN << Segment(Slice(line, lastIndex, markers[k].start),
                                     "normal") >>
                     ELSE << >>)
                 \o << Segment(MarkedText(Slice(line, markers[k].start,
                                                markers[k].end),
                                          markers[k].style),
                               markers[k].style) >>)

\* the bold markers that overlap no code marker
BoldMarkers(line, code) ==
    SelectSeq(Marks("bold", line, 1),
              LAMBDA m : ~\E k \in 1..Len(code) :
                            \/ m.start >= code[k].start /\ m.start < code[k].end
                            \/ m.end > code[k].start /\ m.end <= code[k].end)

PairedMarkers(line, code) == code \o BoldMarkers(line, code)

\* the markers, with the one of an unclosed ** at the start of the line
AllMarkers(line, paired) ==
    IF /\ StartsWith(line, << "*", "*" >>)
       /\ Span(line, 3, {"*"}, TRUE) = Len(line) - 2
       /\ \A k \in 1..Len(paired) : paired[k].start # 0
    THEN Append(paired, Marker(0, Len(line), "bold"))
    ELSE paired

SegmentsOr(line, segments) ==
    IF Len(segments) > 0 THEN segments ELSE << Segment(line, "normal") >>

parseStyledSegments(line) ==
    SegmentsOr(
        line,
        BuildSegments(
            line,
            SortSeq(AllMarkers(line,
                               PairedMarkers(line, Marks("code", line, 1))),
                    LAMBDA a, b : a.start < b.start),
            1, 0, << >>))

\* the text of the segments joined, a space put before a styled segment that
\* follows text ending in neither white space nor an opening mark
getPlainTextFromSegments(segments) ==
    LET part(i) ==
            LET prev == segments[i - 1].text
            IN  (IF /\ i > 1
                    /\ segments[i].style # "normal"
                    /\ prev # << >>
                    /\ prev[Len(prev)] \notin Space
                    /\ prev[Len(prev)] \notin {"(", "[", "{", "\"", "'", "U+0060"}
                 THEN << " " >> ELSE << >>) \o segments[i].text
        join[i \in 0..Len(segments)] ==
            IF i = 0 THEN << >> ELSE join[i - 1] \o part(i)
    IN  join[Len(segments)]

Blank == Space \cup {"U+2800"}

\* p, in lower case, occurs in s at position i in any case
AtAnyCase(s, i, p) ==
    LET lower == << "a", "b", "c", "d", "e", "f", "g", "h", "i", "j", "k", "l", "m", "n", "o", "p", "q", "r", "s", "t", "u", "v", "w", "x", "y", "z" >>
        upper == << "A", "B", "C", "D", "E", "F", "G", "H", "I", "J", "K", "L", "M", "N", "O", "P", "Q", "R", "S", "T", "U", "V", "W", "X", "Y", "Z" >>
        toLowerCase(c) ==
            IF \E k \in 1..26 : upper[k] = c
            THEN lower[CHOOSE k \in 1..26 : upper[k] = c] ELSE c
    IN  /\ i >= 1
        /\ i + Len(p) - 1 <= Len(s)
        /\ \A k \in 1..Len(p) : toLowerCase(s[i + k - 1]) = p[k]

\* Task, \s+, \d+, a colon of either width, \s* at position i: the length of the match, 0 for none
TaskLabelLen(s, i) ==
    LET d == Span(s, i + 4, Space, FALSE)
        e == Span(s, i + 4 + d, Digit, FALSE)
        f == Span(s, i + 5 + d + e, Space, FALSE)
    IN  IF /\ AtAnyCase(s, i, << "t", "a", "s", "k" >>)
           /\ d > 0
           /\ e > 0
           /\ i + 4 + d + e <= Len(s)
           /\ s[i + 4 + d + e] \in {":", "U+FF1A"}
        THEN 5 + d + e + f ELSE 0

\* the length of the match of taskRegex, or else of the bare task label
TaskMatchLen(s) ==
    LET a == Span(s, 1, Blank, FALSE)
        h == Span(s, a + 1, {"#"}, FALSE)
        b == Span(s, a + h + 1, Space, FALSE)
        c == Opt(s, a + h + b + 1, << "*", "*" >>)
        t == TaskLabelLen(s, a + h + b + c + 1)
        g == Opt(s, a + h + b + c + t + 1, << "*", "*" >>)
        w == Span(s, a + h + b + c + t + g + 1, Space, FALSE)
    IN  IF h > 0 /\ t > 0 THEN a + h + b + c + t + g + w
        ELSE TaskLabelLen(s, 1)

\* the length of the match of blanks, one to three #, blanks
HeaderMatchLen(s) ==
    LET a == Span(s, 1, Blank, FALSE)
        n == Span(s, a + 1, {"#"}, FALSE)
        h == IF n > 3 THEN 3 ELSE n
    IN  IF h > 0 THEN a + h + Span(s, a + h + 1, Blank, FALSE) ELSE 0

\* the length of the match of /^\s*[-*]\s+/, and of the same with a bullet
BulletMatchLen(s, marks) ==
    LET a == Span(s, 1, Space, FALSE)
        w == Span(s, a + 2, Space, FALSE)
    IN  IF a < Len(s) /\ s[a + 1] \in marks /\ w > 0 THEN a + 1 + w ELSE 0

\* a markdown blockquote loses its mark
Unquote(text) ==
    IF StartsWith(Trim(text), << ">" >>)
    THEN IF StartsWith(text, << ">", " " >>) THEN Slice(text, 2, Len(text))
         ELSE IF StartsWith(text, << ">" >>) THEN Slice(text, 1, Len(text))
         ELSE text
    ELSE text

\* bold marks left over at the end from a wrapped prefix are dropped
Unwrap(text) ==
    IF EndsWith(text, << "*", "*" >>) /\ ~StartsWith(text, << "*", "*" >>)
    THEN Trim(Slice(text, 0, Len(text) - 2))
    ELSE text

\* the description of a task is put in bold
Embolden(text) ==
    IF ~StartsWith(text, << "*", "*" >>) /\ Len(text) > 0
    THEN << "*", "*" >> \o text \o << "*", "*" >>
    ELSE text

StripTask(text, stripTaskPrefix) ==
    IF TaskMatchLen(text) > 0 /\ stripTaskPrefix
    THEN Embolden(Unwrap(Trim(Slice(text, TaskMatchLen(text), Len(text)))))
    ELSE text

StripHeader(text) == Slice(text, HeaderMatchLen(text), Len(text))

Bullet(text) ==
    IF /\ BulletMatchLen(text, {"-", "*"}) > 0
       /\ ~StartsWith(Slice(text, Span(text, 1, Space, FALSE), Len(text)),
                      << "*", "*" >>)
    THEN << "U+2022", " " >>
             \o Slice(text, BulletMatchLen(text, {"-", "*"}), Len(text))
    ELSE text

Numbered(text) ==
    LET digits == Span(text, 1, Digit, FALSE)
        spaces == Span(text, digits + 2, Space, FALSE)
    IN  IF digits > 0 /\ At(text, digits + 1, << "." >>) /\ spaces > 0
        THEN Slice(text, 0, digits) \o << ".", " " >>
                 \o Slice(text, digits + 1 + spaces, Len(text))
        ELSE text

Dash(text) ==
    IF BulletMatchLen(text, {"U+2022"}) > 0
    THEN << "-", " " >> \o Slice(text, BulletMatchLen(text, {"U+2022"}), Len(text))
    ELSE text

\* the LaTeX transformations are applied to all but the code segments
Transformed(segments) ==
    [i \in 1..Len(segments) |->
        IF segments[i].style = "code" THEN segments[i]
        ELSE Segment(applyLatexTransformations(segments[i].text),
                     segments[i].style)]

Formatted(isTask, isHeader, segments) ==
    [plainText |-> getPlainTextFromSegments(segments),
     isHeader |-> isHeader,
     isTask |-> isTask,
     addEmptyBefore |-> isTask \/ isHeader,
     segments |-> segments]

\* formatLine from the handling of headers on
FormatTask(isTask, text) ==
    Formatted(isTask, HeaderMatchLen(text) > 0,
              Transformed(parseStyledSegments(
                  Dash(Numbered(Bullet(StripHeader(text)))))))

\* formatLine from the handling of task lines on
FormatText(text, stripTaskPrefix) ==
    FormatTask(TaskMatchLen(text) > 0, StripTask(text, stripTaskPrefix))

formatLine(line, stripTaskPrefix, inCodeBlock) ==
    IF inCodeBlock
    THEN [plainText |-> line, isHeader |-> FALSE, isTask |-> FALSE,
          addEmptyBefore |-> FALSE,
          segments |-> << Segment(line, "code") >>]
    ELSE FormatText(Unquote(ReplaceAll(Lit(<< "U+2800" >>, << " " >>), line)),
                    stripTaskPrefix)

\* /^\s*```/, the delimiter of a fenced code block, with or without language
IsFence(line) == At(line, Span(line, 1, Space, FALSE) + 1, << "U+0060", "U+0060", "U+0060" >>)

\* what the loop of formatLines carries from line to line
Carried(results, inTaskBlock, inCodeBlock) ==
    [results |-> results, inTaskBlock |-> inTaskBlock,
     inCodeBlock |-> inCodeBlock]

\* results.push of formatLines
Pushed(c, formatted, isTask, isTaskContinuation, inTaskBlock) ==
    Carried(Append(c.results,
                   [plainText |-> formatted.plainText,
                    isHeader |-> formatted.isHeader,
                    isTask |-> isTask,
                    isTaskContinuation |-> isTaskContinuation,
                    addEmptyBefore |-> formatted.addEmptyBefore,
                    inCodeBlock |-> c.inCodeBlock,
                    segments |-> formatted.segments]),
            inTaskBlock, c.inCodeBlock)

\* the body of the loop of formatLines for a line that is no fence
Classified(c, line, formatted) ==
    IF ~c.inCodeBlock /\ formatted.isTask
    THEN Pushed(c, formatted, formatted.isTask, FALSE, TRUE)
    ELSE IF /\ ~c.inCodeBlock
            /\ \/ formatted.isHeader
               \/ AtAnyCase(Trim(line), 1, << "g", "u", "i", "d", "a", "n", "c", "e", ":" >>)
    THEN Pushed(c, formatted, formatted.isTask, FALSE, FALSE)
    ELSE IF c.inTaskBlock
    THEN Pushed(c, formatted, TRUE, TRUE, c.inTaskBlock)
    ELSE Pushed(c, formatted, formatted.isTask, FALSE, c.inTaskBlock)

\* the body of the loop of formatLines
FormatLinesStep(c, line, stripTaskPrefix) ==
    IF IsFence(line)
    THEN Carried(c.results, c.inTaskBlock, ~c.inCodeBlock)
    ELSE Classified(c, line, formatLine(line, stripTaskPrefix, c.inCodeBlock))

formatLines(lines, stripTaskPrefix) ==
    LET after[k \in 0..Len(lines)] ==
            IF k = 0 THEN Carried(<< >>, FALSE, FALSE)
            ELSE FormatLinesStep(after[k - 1], lines[k], stripTaskPrefix)
    IN  after[Len(lines)].results

LastIndexOfSpaceMutant(segText, fromIndex) == fromIndex

\* segText.lastIndexOf(' ', fromIndex), counted from 0; -1 when there is none
LastIndexOfSpace(segText, fromIndex) ==
    LET from == IF fromIndex < 0 THEN 0 ELSE fromIndex
        found == {j \in 0..(Len(segText) - 1) :
                     j <= from /\ segText[j + 1] = " "}
    IN  IF found = {} THEN -1 ELSE Greatest(found)

\* pushLine of processSummaryLine: the segments gathered become a line
pushLine(st, formatted) ==
    [results |->
         Append(st.results,
                [plainText |-> getPlainTextFromSegments(st.currentSegments),
                 isHeader |-> st.isFirst /\ formatted.isHeader,
                 isTask |-> formatted.isTask,
                 segments |-> st.currentSegments]),
     currentSegments |-> << >>,
     currentLength |-> 0,
     isFirst |-> FALSE]

\* currentSegments.push and the addition to currentLength
PushSegment(st, text, style, prefixLen) ==
    [st EXCEPT !.currentSegments = Append(@, Segment(text, style)),
               !.currentLength = @ + prefixLen + Len(text)]

\* the while loop of processSummaryLine for one segment
RECURSIVE WrapSegment(_, _, _, _, _, _)
WrapSegment(st, segText, prefixLen, style, contentWidth, formatted) ==
    IF st.currentLength + prefixLen + Len(segText) > contentWidth
    THEN LET available == contentWidth - st.currentLength - prefixLen
             lastSpace == LastIndexOfSpace(segText, available)
             breakPoint == IF lastSpace > 0 THEN lastSpace ELSE contentWidth
             firstPart == Slice(segText, 0, breakPoint)
             restPart == Slice(segText, breakPoint + 1, Len(segText))
         IN  IF lastSpace > 0 \/ st.currentLength = 0
             THEN WrapSegment(
                      pushLine(IF firstPart # << >>
                               THEN PushSegment(st, firstPart, style,
                                                prefixLen)
                               ELSE st, formatted),
                      restPart, 0, style, contentWidth, formatted)
             ELSE WrapSegment(pushLine(st, formatted), segText, 0, style,
                              contentWidth, formatted)
    ELSE IF segText # << >>
    THEN PushSegment(st, segText, style, prefixLen)
    ELSE st

\* the length of the space that getPlainTextFromSegments will put before
\* the segment
PrefixLen(st, segment) ==
    LET prev == st.currentSegments[Len(st.currentSegments)].text
    IN  IF /\ Len(st.currentSegments) > 0
           /\ segment.style # "normal"
           /\ prev # << >>
           /\ prev[Len(prev)] \notin Space
           /\ prev[Len(prev)] \notin {"(", "[", "{", "\"", "'", "U+0060"}
        THEN 1 ELSE 0

\* the body of the loop over the segments
WrapNext(st, segment, contentWidth, formatted) ==
    WrapSegment(st, segment.text, PrefixLen(st, segment), segment.style,
                contentWidth, formatted)

\* the segments left over when the loop is done become the last line
Flushed(st, formatted) ==
    IF Len(st.currentSegments) > 0 THEN pushLine(st, formatted).results
    ELSE st.results

\* processSummaryLine from the test of the width on
WrapFormatted(formatted, contentWidth) ==
    LET after[k \in 0..Len(formatted.segments)] ==
            IF k = 0
            THEN [results |-> << >>, currentSegments |-> << >>,
                  currentLength |-> 0, isFirst |-> TRUE]
            ELSE WrapNext(after[k - 1], formatted.segments[k], contentWidth,
                          formatted)
    IN  IF Len(formatted.plainText) <= contentWidth
        THEN << [plainText |-> formatted.plainText,
                 isHeader |-> formatted.isHeader,
                 isTask |-> formatted.isTask,
                 segments |-> formatted.segments] >>
        ELSE Flushed(after[Len(formatted.segments)], formatted)

processSummaryLine(line, contentWidth, stripTaskPrefix, inCodeBlock) ==
    WrapFormatted(formatLine(line, stripTaskPrefix, inCodeBlock),
                  contentWidth)

\* the wrapped lines of an input line, tagged as its formatted line is, with
\* an empty line before them where processLinesForPanel puts one
Tagged(line, wrapped, spaced) ==
    (IF spaced /\ line.addEmptyBefore
     THEN << [plainText |-> << >>, isHeader |-> FALSE, isTask |-> FALSE,
              segments |-> << >>] >>
     ELSE << >>)
        \o [k \in 1..Len(wrapped) |->
               [wrapped[k] EXCEPT
                   !.isTask = line.isTask \/ line.isTaskContinuation \/ @,
                   !.isHeader = line.isHeader \/ @]]

\* the loop over the formatted lines, shared by processFormattedLines and
\* processLinesForPanel: originalLine is lines[i], i the index in formattedLines
ProcessLines(lines, contentWidth, stripTaskPrefix, formattedLines, spaced) ==
    LET all[i \in 0..Len(formattedLines)] ==
            IF i = 0 THEN << >>
            ELSE all[i - 1]
                     \o Tagged(formattedLines[i],
                               processSummaryLine(
                                   lines[i], contentWidth, stripTaskPrefix,
                                   formattedLines[i].inCodeBlock),
                               spaced)
    IN  all[Len(formattedLines)]

processFormattedLines(lines, contentWidth, stripTaskPrefix) ==
    ProcessLines(lines, contentWidth, stripTaskPrefix,
                 formatLines(lines, stripTaskPrefix), FALSE)

processLinesForPanel(lines, contentWidth, stripTaskPrefix) ==
    ProcessLines(lines, contentWidth, stripTaskPrefix,
                 formatLines(lines, stripTaskPrefix), TRUE)

(***************************************************************************)
(* The layout functions, each called once on arguments of a bounded set.   *)
(***************************************************************************)
\* the longest list of lines laid out
MaxPanelLines == 3

\* a content width that none of the lines laid out exceeds
PanelWidth == 40

\* the content width of the narrow panel
WrapWidth == 10

PanelLines ==
    { << "#", "#", "#", " ", "T", "a", "s", "k", " ", "1", ":", " ", "r", "e", "l", "a", "x" >>, << "r", "u", "n", " ", "U+0060", "p", "w", ".", "x", "U+0060" >>, << "U+0060", "U+0060", "U+0060", "b", "a", "s", "h" >>, << "U+0060", "U+0060", "U+0060" >>, << "x", " ", "=", " ", "1" >> }

PanelLists == UNION { [1..n -> PanelLines] : n \in 0..MaxPanelLines }

TaskLine == << "#", "#", "#", " ", "T", "a", "s", "k", " ", "2", ":", " ", "O", "p", "t", "i", "m", "i", "z", "e", " ", "t", "h", "e", " ", "*", "*", "l", "a", "t", "t", "i", "c", "e", "*", "*", " ", "p", "a", "r", "a", "m", "e", "t", "e", "r" >>

WrapLine == << "T", "h", "e", " ", "q", "u", "a", "n", "t", "i", "t", "y", " ", "U+0060", "1", "0", ".", "5", "U+0060", " ", "c", "a", "n", "n", "o", "t", " ", "f", "i", "t" >>

MacroLines == { SYMBOL_MAP[k].latex : k \in 1..Len(SYMBOL_MAP) }

FormatCall(lines, width, strip) ==
    [lines |-> lines, width |-> width, strip |-> strip]

FormatCalls ==
    { FormatCall(lines, PanelWidth, TRUE) : lines \in PanelLists }
        \cup { FormatCall(<< line >>, PanelWidth, strip) :
                   line \in MacroLines \cup {TaskLine}, strip \in BOOLEAN }
        \cup { FormatCall(<< WrapLine >>, WrapWidth, FALSE) }

Returned(fn, out) == [fn |-> fn, out |-> out]

InitFormat ==
    /\ InitWith(TRUE, FALSE)
    /\ emitted = << >> /\ pipe = << >> /\ dispatched = << >>
    /\ fmtCall \in FormatCalls
    /\ fmtResult = Returned("none", << >>)

\* a call returns; nothing of the component changes
Returns(fn, out) ==
    /\ fmtResult.fn = "none"
    /\ fmtResult' = Returned(fn, out)
    /\ fmtCall' = fmtCall
    /\ nMsgs' = nMsgs /\ nKeys' = nKeys /\ lastMsg' = lastMsg
    /\ UNCHANGED streamVars
    /\ Becomes(State)

FormatLine ==
    /\ Len(fmtCall.lines) = 1
    /\ Returns("formatLine",
               formatLine(fmtCall.lines[1], fmtCall.strip, FALSE))

FormatLines ==
    Returns("formatLines", formatLines(fmtCall.lines, fmtCall.strip))

ProcessSummaryLine ==
    /\ Len(fmtCall.lines) = 1
    /\ Returns("processSummaryLine",
               processSummaryLine(fmtCall.lines[1], fmtCall.width,
                                  fmtCall.strip, FALSE))

ProcessFormattedLines ==
    Returns("processFormattedLines",
            processFormattedLines(fmtCall.lines, fmtCall.width,
                                  fmtCall.strip))

ProcessLinesForPanel ==
    Returns("processLinesForPanel",
            processLinesForPanel(fmtCall.lines, fmtCall.width,
                                 fmtCall.strip))

NextFormat ==
    \/ FormatLine
    \/ FormatLines
    \/ ProcessSummaryLine
    \/ ProcessFormattedLines
    \/ ProcessLinesForPanel

SpecFormat == InitFormat /\ [][NextFormat]_vars

\* the lines of the list that are no fence, each with the code-block flag
\* that holds at its position: the number of fences before it is odd
Laid(lines) ==
    LET kept == SelectSeq([j \in 1..Len(lines) |-> j],
                          LAMBDA j : ~IsFence(lines[j]))
    IN  [k \in 1..Len(kept) |->
            [line |-> lines[kept[k]],
             inCodeBlock |->
                 Cardinality({j \in 1..kept[k] : IsFence(lines[j])}) % 2 = 1]]

\* the plain texts of the lines put out, without the empty lines of spacing
PlainTexts(out) ==
    SelectSeq([k \in 1..Len(out) |-> out[k].plainText],
              LAMBDA text : text # << >>)

\* C26: when a list of lines is laid out for a panel, no fence delimiter is
\* in the output, and every other line of the input is there exactly once,
\* in the order of the input, formatted with the code-block flag that holds
\* at its position.  The lines are laid out at a width that wraps none.
C26_FencesOmittedLinesKept ==
    (/\ fmtResult.fn \in {"formatLines", "processFormattedLines",
                          "processLinesForPanel"}
     /\ fmtCall.width = PanelWidth)
    => LET laid == Laid(fmtCall.lines)
       IN  /\ \A k \in 1..Len(fmtResult.out) :
                  ~IsFence(fmtResult.out[k].plainText)
           /\ PlainTexts(fmtResult.out)
                  = [k \in 1..Len(laid) |->
                        formatLine(laid[k].line, fmtCall.strip,
                                   laid[k].inCodeBlock).plainText]

\* C27: formatLine of "### Task 2: Optimize the **lattice** parameter" with
\* the task prefix stripped is flagged as a task, asks for an empty line
\* before it, has the plain text "Optimize the lattice parameter", and has
\* exactly one bold segment.
C27_TaskLineExample ==
    (fmtResult.fn = "formatLine" /\ fmtCall.lines = << TaskLine >>
        /\ fmtCall.strip)
    => /\ fmtResult.out.isTask
       /\ fmtResult.out.addEmptyBefore
       /\ fmtResult.out.plainText = << "O", "p", "t", "i", "m", "i", "z", "e", " ", "t", "h", "e", " ", "l", "a", "t", "t", "i", "c", "e", " ", "p", "a", "r", "a", "m", "e", "t", "e", "r" >>
       /\ Cardinality({k \in 1..Len(fmtResult.out.segments) :
                          fmtResult.out.segments[k].style = "bold"}) = 1

\* the lines are the text cut at the breaks, a break taking a space away
\* (gap 1) or none (gap 0)
RECURSIVE Rejoined(_, _, _)
Rejoined(texts, gaps, k) ==
    IF k > Len(texts) THEN << >>
    ELSE texts[k] \o (IF k < Len(texts) /\ gaps[k] = 1 THEN << " " >> ELSE << >>)
             \o Rejoined(texts, gaps, k + 1)

\* C28: the segments "The quantity ", "10.5" (code), " cannot fit" wrapped
\* at width 10: the code segment is whole in exactly one line of the output,
\* and every break is at a space outside of it, one that the break takes
\* away or one of normal text right before or right after the break.
C28_CodeSegmentNotSplit ==
    (fmtResult.fn = "processSummaryLine" /\ fmtCall.lines = << WrapLine >>
        /\ fmtCall.width = WrapWidth)
    => LET out == fmtResult.out
           texts == [k \in 1..Len(out) |-> out[k].plainText]
           code == {kj \in (1..Len(out)) \X (1..3) :
                       /\ kj[2] <= Len(out[kj[1]].segments)
                       /\ out[kj[1]].segments[kj[2]].style = "code"}
           spaceAfter(k) ==
               /\ out[k].segments[Len(out[k].segments)].style = "normal"
               /\ EndsWith(texts[k], << " " >>)
           spaceBefore(k) ==
               /\ out[k].segments[1].style = "normal"
               /\ StartsWith(texts[k], << " " >>)
       IN  /\ Cardinality(code) = 1
           /\ \A kj \in code : out[kj[1]].segments[kj[2]].text = << "1", "0", ".", "5" >>
           /\ \A k \in 1..Len(out) : out[k].segments # << >>
           /\ \E gaps \in [1..(Len(out) - 1) -> {0, 1}] :
                  /\ Rejoined(texts, gaps, 1) = << "T", "h", "e", " ", "q", "u", "a", "n", "t", "i", "t", "y", " ", "1", "0", ".", "5", " ", "c", "a", "n", "n", "o", "t", " ", "f", "i", "t" >>
                  /\ \A k \in 1..(Len(out) - 1) :
                         gaps[k] = 0 => spaceAfter(k) \/ spaceBefore(k + 1)

C28_Witness ==
    /\ fmtResult.fn = "processSummaryLine"
    /\ fmtCall.lines = << WrapLine >>
    /\ fmtCall.width = WrapWidth
    /\ Len(fmtResult.out) = 5
    /\ fmtResult.out[3].segments = << Segment(<< "1", "0", ".", "5" >>, "code") >>

\* C29: every macro of SYMBOL_MAP is rewritten to its glyph, whatever the
\* other entries of the table are.
C29_EveryMacroRewritten ==
    \A k \in 1..Len(SYMBOL_MAP) :
        (fmtResult.fn = "formatLine"
            /\ fmtCall.lines = << SYMBOL_MAP[k].latex >>)
        => fmtResult.out.plainText = << SYMBOL_MAP[k].unicode >>

(***************************************************************************)
(* The reviewer at work on a plan of ten tasks: the progress of the tasks  *)
(* and the events of the evaluator, in any order.                          *)
(***************************************************************************)
\* the messages dispatched in one session of review
MaxReviewMsgs == 4

\* the number of tasks of the plan under review
ReviewTotal == 10

ReviewTasks == {1, 2, ReviewTotal}

ReviewMessages ==
    { Msg("task_progress",
          [present |-> TRUE, current |-> n, total |-> ReviewTotal]) :
          n \in ReviewTasks }
        \cup { Msg("agent_event", p) :
                   p \in { q \in AgentPayloads : q.agent = "evaluator" } }

OnReview ==
    \E msg \in ReviewMessages :
        /\ ~exited
        /\ spawned > 0
        /\ nMsgs < MaxReviewMsgs
        /\ nMsgs' = nMsgs + 1
        /\ nKeys' = nKeys
        /\ lastMsg' = msg.type
        /\ UNCHANGED << streamVars, formatVars >>
        /\ Becomes(handleBridgeMessage(State, msg))

NextReview == OnReview

SpecReview == Init /\ [][NextReview]_vars

\* the log holds a reviewer header of task n
HasReviewerHeader(items, n) ==
    \E i \in 1..Len(items) :
        /\ items[i].type = "evaluator-header"
        /\ items[i].id.k = "header-task"
        /\ items[i].id.n = n

\* the step puts a reviewer header at the end of what the log held
ReviewerHeaderAppended ==
    /\ Len(committedItems') > Len(committedItems)
    /\ committedItems'[Len(committedItems) + 1].type = "evaluator-header"

\* C30: at an event of the reviewer for task n, a reviewer header of task n
\* is appended if and only if the log holds none of task n, whatever headers
\* of other tasks it holds; at an event without task number a header is
\* appended only if the log holds no reviewer header at all.
C30_ReviewerHeaderPerTask ==
    [][ (nMsgs' = nMsgs + 1 /\ lastMsg' = "agent_event"
            /\ lastStep' = "handled")
        => LET n == taskProgressRef.current
           IN  IF n # NoTask
               THEN /\ ReviewerHeaderAppended
                        <=> ~HasReviewerHeader(committedItems, n)
                    /\ ReviewerHeaderAppended
                        => committedItems'[Len(committedItems) + 1].id
                               = TaskHeaderId("evaluator", n, FALSE)
               ELSE ReviewerHeaderAppended
                        => \A i \in 1..Len(committedItems) :
                               committedItems[i].type # "evaluator-header"
      ]_vars


(***************************************************************************)
(* The operator running code: results of code runs and completed steps,    *)
(* in any order.  The messages handled are kept in `dispatched`.           *)
(***************************************************************************)
\* the messages dispatched in one session of code runs
MaxToolMsgs == 4

ToolMessages ==
    { Msg("code_result", [output |-> o, success |-> ok, file_path |-> "run.py"]) :
          o \in {"Traceback", ""}, ok \in {"true", "false"} }
        \cup { Msg("agent_event",
                   AgentPayload("operator", "step_complete", text, e, "")) :
                   text \in {"Executed code", "Wrote input file"},
                   e \in BOOLEAN }

OnTool ==
    \E msg \in ToolMessages :
        /\ ~exited
        /\ spawned > 0
        /\ nMsgs < MaxToolMsgs
        /\ nMsgs' = nMsgs + 1
        /\ nKeys' = nKeys
        /\ lastMsg' = msg.type
        /\ dispatched' = Append(dispatched, msg)
        /\ UNCHANGED << emitted, pipe, formatVars >>
        /\ Becomes(handleBridgeMessage(State, msg))

NextTool == OnTool

SpecTool == Init /\ [][NextTool]_vars

\* the message is a completed step whose status text contains "executed"
IsExecutedStep(msg) ==
    /\ msg.type = "agent_event"
    /\ msg.payload.event = "step_complete"
    /\ ContainsExecuted(msg.payload.status)

\* the code results among the messages d that came after the last executed
\* step of d
ResultsSinceExecuted(d, counted(_)) ==
    { i \in 1..Len(d) :
        /\ d[i].type = "code_result"
        /\ counted(d[i])
        /\ \A j \in i..Len(d) : ~IsExecutedStep(d[j]) }

\* the most recent of these results reported a failure
LastResultFailed(d, counted(_)) ==
    /\ ResultsSinceExecuted(d, counted) # {}
    /\ d[Greatest(ResultsSinceExecuted(d, counted))].payload.success = "false"

\* the step just handled was a step_complete, and the item it appended is a
\* tool item flagged as the test says
ToolFlagged(counted(_)) ==
    LET msg == dispatched'[Len(dispatched')]
        item == committedItems'[Len(committedItems')]
        expected == \/ msg.payload.is_error
                    \/ /\ ContainsExecuted(msg.payload.status)
                       /\ LastResultFailed(dispatched, counted)
    IN  (/\ Len(dispatched') = Len(dispatched) + 1
         /\ msg.type = "agent_event"
         /\ msg.payload.event = "step_complete")
        => /\ item.type = "tool"
           /\ item.isError = Bool(expected)
           /\ ContainsExecuted(msg.payload.status)
                  => ~lastCodeResultIsErrorRef'

\* C31 as stated: the tool item of a step_complete is error-flagged iff the
\* payload's is_error is true, or the status contains "executed" and the
\* most recent code_result since the previous executed step reported
\* failure; after an executed step the last-code-result flag is false.
C31_ToolFlaggedByLastResult ==
    [][ ToolFlagged(LAMBDA m : TRUE) ]_vars

\* C31: the same, where the code results counted are those that carried
\* output: a code_result without output is not shown and not recorded.
C31_ToolFlaggedByLastShownResult ==
    [][ ToolFlagged(LAMBDA m : m.payload.output # "") ]_vars

\* a failed run with output, then a successful one without, then the
\* executed step: its tool item is flagged, and the flag is down again
C31_Witness ==
    /\ Len(dispatched) = 3
    /\ dispatched[1].type = "code_result"
    /\ dispatched[1].payload.success = "false"
    /\ dispatched[1].payload.output # ""
    /\ dispatched[2].type = "code_result"
    /\ dispatched[2].payload.success = "true"
    /\ dispatched[2].payload.output = ""
    /\ IsExecutedStep(dispatched[3])
    /\ ~dispatched[3].payload.is_error
    /\ committedItems[Len(committedItems)].type = "tool"
    /\ committedItems[Len(committedItems)].isError = "true"
    /\ ~lastCodeResultIsErrorRef


(***************************************************************************)
(* The questions of the resume prompt and of the completed-run prompt.     *)
(***************************************************************************)
PromptModes == {"prompt", "completed-run-prompt"}

\* a line was entered while one of the two questions was shown
AnsweredAtPrompt ==
    /\ nKeys' = nKeys + 1
    /\ lastStep' = "submit"
    /\ checkpointMode \in PromptModes

\* C32: answering "no" at the resume prompt or at the completed-run prompt
\* performs the full reset: the log is empty, task progress (state and
\* ref), agent registry, plan content, active file content, system status
\* and item counter have their initial values, and exactly one fresh_start
\* command was written to the worker.
C32_NoPerformsFullReset ==
    [][ (AnsweredAtPrompt /\ Normalize(lastMsg') = "no")
        => /\ committedItems' = << >>
           /\ taskProgress' = NullProgress
           /\ taskProgressRef' = NullProgress
           /\ agents' = << >>
           /\ planContent' = ""
           /\ ~isPlanComplete'
           /\ activeFileContentRef' = NullFile
           /\ systemStatus' = "idle"
           /\ itemIdCounterRef' = 0
           /\ Len(sent') = Len(sent) + 1
           /\ sent'[Len(sent')].cmd = Command("fresh_start", Undefined, Undefined)
           /\ sent'[Len(sent')].to = bridgeRef
           /\ SubSeq(sent', 1, Len(sent)) = sent ]_vars

\* "no" was answered at a question that followed a check of the checkpoint,
\* and the reset is done
C32_Witness ==
    /\ lastStep = "submit"
    /\ Normalize(lastMsg) = "no"
    /\ previousInput = ""
    /\ committedItems = << >>
    /\ taskProgressRef = NullProgress
    /\ itemIdCounterRef = 0
    /\ staticKey > 0
    /\ sent # << >>
    /\ sent[Len(sent)].cmd.command = "fresh_start"
    /\ Len(sent) >= 2
    /\ sent[Len(sent) - 1].cmd.command = "check_checkpoint"

\* what a line that is no answer may change: the warning of a first ESC,
\* which any key takes down (Run.tsx:422-428), and nothing else
answerFrame ==
    << messages, status, isLoading, modelName, isResizing, ragStatus,
       isSystemReady, showMainUI, systemStatus, agents, planContent,
       isPlanComplete, activeFileContentRef, lastCodeResultIsErrorRef,
       taskProgress, taskProgressRef, committedItems, bannerCommitted,
       checkpointMode, previousInput, isInterruptedRef, escTimeoutRef,
       exitPressedOnce, showExitWarning, exitTimeoutRef, resizeCounter,
       staticKey, bridgeRef, resizeTimeoutRef, bridgeRestartCounter,
       itemIdCounterRef, parsedPlan, parsedPlanRef, restartFromEnv, spawned,
       killed, sent, bridgeEffectPending, readyTimers, ragTimer, resumeTimers,
       resizeRestore, exited, now >>

\* C33: while one of the two questions is shown, a line other than "yes",
\* "no" and "exit" (trimmed, in any case) sends no command and changes no
\* state, and no step sends a prompt command with typed content.
C33_OtherInputIgnoredAtPrompt ==
    [][ /\ (AnsweredAtPrompt /\ Normalize(lastMsg') \notin {"yes", "no", "exit"})
            => UNCHANGED answerFrame
        /\ checkpointMode \in PromptModes
            => \A i \in (Len(sent) + 1)..Len(sent') :
                   sent'[i].cmd.command = "prompt" => sent'[i].cmd.content = "" ]_vars

\* a request was typed at the completed-run prompt, and the question stands
C33_Witness ==
    /\ lastStep = "submit"
    /\ lastMsg = "band structure of Si"
    /\ checkpointMode = "completed-run-prompt"
    /\ ~isLoading


\* C34: a confirmed interrupt removes and alters no item of the log (the log
\* after it is the log before it plus at most the one interrupt entry), and
\* it resets the busy flag, the checkpoint mode to 'checking', the flags of
\* the main UI and of the ready system, the system status to idle, the
\* registry of agents, the plan content and the task progress.
C34_InterruptKeepsLog ==
    [][ (EscPress /\ isLoading /\ escPressedOnce)
        => /\ IsPrefix(committedItems, committedItems')
           /\ Len(committedItems') <= Len(committedItems) + 1
           /\ Len(committedItems') = Len(committedItems) + 1
                  => committedItems'[Len(committedItems')].id.k = "interrupt"
           /\ ~isLoading'
           /\ checkpointMode' = "checking"
           /\ ~showMainUI'
           /\ ~isSystemReady'
           /\ systemStatus' = "idle"
           /\ agents' = << >>
           /\ planContent' = ""
           /\ ~isPlanComplete'
           /\ taskProgress' = NullProgress ]_vars

\* a run with a task in progress was interrupted: its items are in the log
\* before the interrupt entry, and the session is reset
C34_Witness ==
    /\ lastStep = "esc-confirm"
    /\ Len(committedItems) >= 3
    /\ committedItems[Len(committedItems)].id.k = "interrupt"
    /\ agents = << >>
    /\ checkpointMode = "checking"
    /\ taskProgress = NullProgress
    /\ taskProgressRef # NullProgress


(***************************************************************************)
(* The end of runs: final summaries and reports of a completed run, with   *)
(* two different texts, in any order.                                      *)
(***************************************************************************)
\* the messages dispatched in one session of summaries
MaxSummaryMsgs == 3

Summaries == {"The gap is 1.1 eV", "The gap is 0.6 eV"}

SummaryMessages ==
    { Msg("final_summary", [content |-> c]) : c \in Summaries \cup {""} }
        \cup { Msg("completed_run_info",
                   [exists |-> TRUE, previous_input |-> "band structure of Si",
                    summary |-> c]) : c \in Summaries }

OnSummary ==
    \E msg \in SummaryMessages :
        /\ ~exited
        /\ spawned > 0
        /\ nMsgs < MaxSummaryMsgs
        /\ nMsgs' = nMsgs + 1
        /\ nKeys' = nKeys
        /\ lastMsg' = msg.type
        /\ dispatched' = Append(dispatched, msg)
        /\ UNCHANGED << emitted, pipe, formatVars >>
        /\ Becomes(handleBridgeMessage(State, msg))

NextSummary == OnSummary

SpecSummary == Init /\ [][NextSummary]_vars

\* C35: no two items of the log share an id.
C35_UniqueIds ==
    \A i, j \in 1..Len(committedItems) :
        i # j => committedItems[i].id # committedItems[j].id


\* the plan boxes of the log
PlanBoxes(items) == { p \in 1..Len(items) : items[p].type = "plan" }

\* C36: the log holds at most one plan box, whatever the order of the
\* checkpoint reconstructions and of the milestones "Reviewed Plan" and
\* "Created Replan".
C36_AtMostOnePlanBox == Cardinality(PlanBoxes(committedItems)) <= 1

\* a checkpoint with a plan was reported after the milestone of a live run
\* had put its plan box into the log: the box of the live run is the only one
C36_Witness ==
    /\ lastMsg = "checkpoint_info"
    /\ lastStep = "handled"
    /\ parsedPlan # << >>
    /\ Cardinality(PlanBoxes(committedItems)) = 1
    /\ \E p \in PlanBoxes(committedItems) :
           committedItems[p].id = FixedId("execution-plan-complete")


(***************************************************************************)
(* The session with a worker that does its part: each worker reports that  *)
(* it is ready, once, and answers every check_checkpoint it was sent with  *)
(* a checkpoint_info.  `dispatched` keeps these two kinds of messages with *)
(* the worker they came from.  The effects and the timers of Run are       *)
(* callbacks of the event loop and run once they are due.                  *)
(***************************************************************************)
\* the other messages of one worker
MaxLiveMsgs == 2

From(type, proc) == [type |-> type, from |-> proc]

\* messages of the kind that came from the worker proc
Came(type, proc) ==
    Cardinality({ i \in 1..Len(dispatched) : dispatched[i] = From(type, proc) })

\* check_checkpoint commands written to the worker proc
Asked(proc) ==
    Cardinality({ i \in 1..Len(sent) :
                    /\ sent[i].to = proc
                    /\ sent[i].cmd.command = "check_checkpoint" })

\* the data listener is called with a message of the attached worker
Handles(msg) ==
    /\ ~exited
    /\ bridgeRef # NoProc
    /\ nKeys' = nKeys
    /\ lastMsg' = msg.type
    /\ UNCHANGED << emitted, pipe, formatVars >>
    /\ Becomes(handleBridgeMessage(State, msg))

WorkerReady ==
    /\ bridgeRef # NoProc
    /\ Came("ready", bridgeRef) = 0
    /\ nMsgs' = nMsgs
    /\ dispatched' = Append(dispatched, From("ready", bridgeRef))
    /\ Handles(Msg("ready", NoPayload))

WorkerAnswers ==
    /\ bridgeRef # NoProc
    /\ Came("checkpoint_info", bridgeRef) < Asked(bridgeRef)
    /\ nMsgs' = nMsgs
    /\ dispatched' = Append(dispatched, From("checkpoint_info", bridgeRef))
    /\ \E p \in CheckpointPayloads : Handles(Msg("checkpoint_info", p))

WorkerReports ==
    /\ nMsgs < MaxLiveMsgs
    /\ nMsgs' = nMsgs + 1
    /\ UNCHANGED dispatched
    /\ \E msg \in { Msg("rag_status", [status |-> "done"]),
                     Msg("status", [present |-> TRUE, text |-> "Thinking",
                                    loading |-> TRUE]) } :
           Handles(msg)

NextLive ==
    \/ WorkerReady \/ WorkerAnswers \/ WorkerReports
    \/ PlanRefEffect \/ BridgeEffect
    \/ EscapeKey \/ EscTimeout \/ Tick
    \/ ReadyTimeout \/ RagTimeout \/ ResumeTimeout

SpecLive ==
    /\ Init
    /\ [][NextLive]_vars
    /\ WF_vars(WorkerReady)
    /\ WF_vars(WorkerAnswers)
    /\ WF_vars(PlanRefEffect)
    /\ WF_vars(BridgeEffect)
    /\ WF_vars(ReadyTimeout)
    /\ WF_vars(RagTimeout)
    /\ WF_vars(ResumeTimeout)

\* the session has left the check of the checkpoint
Recovered == checkpointMode # "checking" /\ showMainUI /\ isSystemReady

\* C37 as stated: after a confirmed interrupt, with a worker that reports
\* ready and answers check_checkpoint, the session eventually leaves the
\* mode 'checking' with the main UI shown and the system ready.
C37_InterruptLeadsToSession ==
    (lastStep = "esc-confirm") ~> Recovered

\* C37: the same for an interrupt that comes after the retrieval status has
\* become 'done'.
C37_InterruptAfterRagLeadsToSession ==
    (lastStep = "esc-confirm" /\ ragStatus = "done") ~> Recovered

\* the second worker has answered, and the session is out of 'checking'
C37_Witness ==
    /\ bridgeRestartCounter = 1
    /\ bridgeRef = 1
    /\ Came("ready", 1) = 1
    /\ Came("checkpoint_info", 1) = 1
    /\ lastMsg = "checkpoint_info"
    /\ Recovered

(***************************************************************************)
(* The wrap loop of processSummaryLine, followed iteration by iteration.   *)
(* fmtResult holds the locals of the loop until the function returns.      *)
(***************************************************************************)
\* the widest content width of the lines wrapped
MaxWrapWidth == 8

WrapLines ==
    { << "a", "b", "c", "d", "e", "f", "g", "h", "i", "j", "k", "l" >>, << "a", "b", " ", "c", "d", " ", "e", "f", "g", " ", "h", "i" >>, << "r", "u", "n", " ", "U+0060", "p", "w", ".", "x", " ", "-", "i", " ", "a", "U+0060", " ", "n", "o", "w" >>, << "s", "e", "e", "*", "*", "b", "o", "l", "d", " ", "t", "e", "x", "t", "*", "*", "e", "n", "d", " ", "i", "t" >> }

WrapCalls ==
    { FormatCall(<< line >>, w, FALSE) :
          line \in WrapLines, w \in 1..MaxWrapWidth }

\* the locals of the loop: the formatted line, the segment at work (the
\* k-th), what is left of its text, the space owed before it, the lines and
\* the current line; last names the path the loop took last
Loop(formatted, k, segText, prefixLen, st, last) ==
    [formatted |-> formatted, k |-> k, segText |-> segText,
     prefixLen |-> prefixLen, st |-> st, last |-> last]

\* the test of the while loop
Overflows(lp, contentWidth) ==
    lp.st.currentLength + lp.prefixLen + Len(lp.segText) > contentWidth

\* a variant of the iteration that never breaks a token: with no space to
\* break at it tries again, the line as it is; C40 must tell it from the
\* iteration of the code
WrapIterationRetry(lp, style, contentWidth, formatted) ==
    LET st == lp.st
        available == contentWidth - st.currentLength - lp.prefixLen
        lastSpace == LastIndexOfSpace(lp.segText, available)
        firstPart == Slice(lp.segText, 0, lastSpace)
        restPart == Slice(lp.segText, lastSpace + 1, Len(lp.segText))
    IN  IF lastSpace > 0
        THEN Loop(formatted, lp.k, restPart, 0,
                  pushLine(PushSegment(st, firstPart, style, lp.prefixLen),
                           formatted),
                  "space")
        ELSE Loop(formatted, lp.k, lp.segText, 0, st, "retry")

\* a variant of the iteration that breaks at the width whatever the current
\* line holds: C39 must tell it from the iteration of the code
WrapIterationWide(lp, style, contentWidth, formatted) ==
    LET st == lp.st
        available == contentWidth - st.currentLength - lp.prefixLen
        lastSpace == LastIndexOfSpace(lp.segText, available)
        breakPoint == IF lastSpace > 0 THEN lastSpace
                      ELSE IF contentWidth < Len(lp.segText) THEN contentWidth
                      ELSE Len(lp.segText)
        firstPart == Slice(lp.segText, 0, breakPoint)
        restPart == Slice(lp.segText, breakPoint + 1, Len(lp.segText))
    IN  Loop(formatted, lp.k, restPart, 0,
             pushLine(IF firstPart # << >>
                      THEN PushSegment(st, firstPart, style, lp.prefixLen)
                      ELSE st, formatted),
             IF lastSpace > 0 THEN "space" ELSE "hard")

\* one iteration of the while loop
WrapIteration(lp, style, contentWidth, formatted) ==
    LET st == lp.st
        available == contentWidth - st.currentLength - lp.prefixLen
        lastSpace == LastIndexOfSpace(lp.segText, available)
        breakPoint == IF lastSpace > 0 THEN lastSpace ELSE contentWidth
        firstPart == Slice(lp.segText, 0, breakPoint)
        restPart == Slice(lp.segText, breakPoint + 1, Len(lp.segText))
    IN  IF lastSpace > 0 \/ st.currentLength = 0
        THEN Loop(formatted, lp.k, restPart, 0,
                  pushLine(IF firstPart # << >>
                           THEN PushSegment(st, firstPart, style, lp.prefixLen)
                           ELSE st, formatted),
                  IF lastSpace > 0 THEN "space" ELSE "hard")
        ELSE Loop(formatted, lp.k, lp.segText, 0, pushLine(st, formatted), "retry")

\* the loop goes on with the segment k of the line
WrapStart(k, st, formatted) ==
    Loop(formatted, k, formatted.segments[k].text,
         PrefixLen(st, formatted.segments[k]), st, "next")

\* the test of the width at the head of processSummaryLine
WrapEntered(formatted, contentWidth) ==
    IF Len(formatted.plainText) <= contentWidth
    THEN Returned("processSummaryLine",
                  << [plainText |-> formatted.plainText,
                      isHeader |-> formatted.isHeader,
                      isTask |-> formatted.isTask,
                      segments |-> formatted.segments] >>)
    ELSE Returned("loop",
                  WrapStart(1, [results |-> << >>, currentSegments |-> << >>,
                                currentLength |-> 0, isFirst |-> TRUE],
                            formatted))

\* the end of the body of the for loop: what is left of the segment goes to
\* the current line; after the last segment the function returns
WrapAppended(k, st, formatted) ==
    IF k < Len(formatted.segments)
    THEN Returned("loop", WrapStart(k + 1, st, formatted))
    ELSE Returned("processSummaryLine", Flushed(st, formatted))

\* processSummaryLine was called and has formatted its line
InitWrap ==
    /\ InitWith(TRUE, FALSE)
    /\ emitted = << >> /\ pipe = << >> /\ dispatched = << >>
    /\ fmtCall \in WrapCalls
    /\ fmtResult = Returned("formatLine",
                            formatLine(fmtCall.lines[1], fmtCall.strip, FALSE))

\* a step of the function; nothing of the component changes
Steps(result) ==
    /\ fmtResult' = result
    /\ fmtCall' = fmtCall
    /\ nMsgs' = nMsgs /\ nKeys' = nKeys /\ lastMsg' = lastMsg
    /\ UNCHANGED streamVars
    /\ Becomes(State)

WrapFormattedLine == formatLine(fmtCall.lines[1], fmtCall.strip, FALSE)

WrapEnter ==
    /\ fmtResult.fn = "formatLine"
    /\ Steps(WrapEntered(fmtResult.out, fmtCall.width))

WrapIterate ==
    /\ fmtResult.fn = "loop"
    /\ Overflows(fmtResult.out, fmtCall.width)
    /\ Steps(Returned("loop",
                      WrapIteration(fmtResult.out,
                                    fmtResult.out.formatted.segments[fmtResult.out.k].style,
                                    fmtCall.width, fmtResult.out.formatted)))

WrapAppend ==
    /\ fmtResult.fn = "loop"
    /\ ~Overflows(fmtResult.out, fmtCall.width)
    /\ Steps(WrapAppended(
                 fmtResult.out.k,
                 IF fmtResult.out.segText # << >>
                 THEN PushSegment(fmtResult.out.st, fmtResult.out.segText,
                                  fmtResult.out.formatted.segments[fmtResult.out.k].style,
                                  fmtResult.out.prefixLen)
                 ELSE fmtResult.out.st,
                 fmtResult.out.formatted))

NextWrap == WrapEnter \/ WrapIterate \/ WrapAppend

\* the function runs on until it returns
SpecWrap == InitWrap /\ [][NextWrap]_vars /\ WF_vars(NextWrap)

WrapReturned == fmtResult.fn = "processSummaryLine"

\* the texts of the segments, one after the other
SegmentTexts(segments) ==
    LET join[i \in 0..Len(segments)] ==
            IF i = 0 THEN << >> ELSE join[i - 1] \o segments[i].text
    IN  join[Len(segments)]

\* the segments of the lines, one after the other
LineSegments(lines) ==
    LET join[i \in 0..Len(lines)] ==
            IF i = 0 THEN << >> ELSE join[i - 1] \o lines[i].segments
    IN  join[Len(lines)]

NonSpaces(text) == SelectSeq(text, LAMBDA c : c # " ")

\* C38: wrapping keeps the content: the characters other than spaces of the
\* segments of the lines put out, in order, are those of the segments put
\* in; none is dropped or duplicated, a token broken at the width included.
C38_WrapKeepsContent ==
    WrapReturned
    => NonSpaces(SegmentTexts(LineSegments(fmtResult.out)))
           = NonSpaces(SegmentTexts(WrapFormattedLine.segments))

\* text occurs in the text whole
WithinText(text, whole) ==
    \E a \in 0..(Len(whole) - Len(text)) : Slice(whole, a, a + Len(text)) = text

\* C39: every line that processSummaryLine returns for a width w >= 1 has a
\* flattened text (the texts of its segments and the spaces between them) of
\* at most w characters, and every piece has the style of the segment it
\* is a piece of.
C39_LinesFitWidth ==
    WrapReturned
    => \A i \in 1..Len(fmtResult.out) :
           /\ Len(getPlainTextFromSegments(fmtResult.out[i].segments))
                  <= fmtCall.width
           /\ Len(fmtResult.out[i].plainText) <= fmtCall.width
           /\ \A j \in 1..Len(fmtResult.out[i].segments) :
                  \E k \in 1..Len(WrapFormattedLine.segments) :
                      /\ WrapFormattedLine.segments[k].style
                             = fmtResult.out[i].segments[j].style
                      /\ WithinText(fmtResult.out[i].segments[j].text,
                                    WrapFormattedLine.segments[k].text)

\* a line with a styled piece after a plain one was wrapped into several
\* lines, one of which fills the width with pieces of two styles
C39_Witness ==
    /\ WrapReturned
    /\ Len(fmtResult.out) >= 3
    /\ \E i \in 1..Len(fmtResult.out) :
           /\ Len(fmtResult.out[i].segments) = 2
           /\ fmtResult.out[i].segments[1].style = "normal"
           /\ fmtResult.out[i].segments[2].style # "normal"
           /\ Len(fmtResult.out[i].plainText) = fmtCall.width

\* the step is an iteration of the while loop
WrapIterates ==
    /\ fmtResult.fn = "loop"
    /\ fmtResult'.fn = "loop"
    /\ fmtResult'.out.k = fmtResult.out.k
    /\ Overflows(fmtResult.out, fmtCall.width)

\* C40: the wrap loop terminates for every line and width >= 1: every
\* iteration consumes at least one character of the segment at work or
\* flushes a line that is not empty, and the function returns.
C40_WrapTerminates ==
    /\ [][ WrapIterates
           => \/ Len(fmtResult'.out.segText) < Len(fmtResult.out.segText)
              \/ /\ fmtResult.out.st.currentLength > 0
                 /\ fmtResult'.out.st.currentLength = 0
                 /\ Len(fmtResult'.out.st.results)
                        = Len(fmtResult.out.st.results) + 1 ]_vars
    /\ <>WrapReturned

\* the loop has flushed the line and tries the segment again
C40_Witness ==
    /\ fmtResult.fn = "loop"
    /\ fmtResult.out.last = "retry"
    /\ fmtResult.out.st.currentLength = 0
    /\ fmtResult.out.st.results # << >>
    /\ Overflows(fmtResult.out, fmtCall.width)

====
